---- MODULE Spec2Model ----
(***************************************************************************)
(* A model of the webOS update server (webos-update-server): the OMA DM   *)
(* endpoint of server.py, the session store of syncml/session.py, the     *)
(* response builder of syncml/builder.py, the MAC of syncml/auth.py and   *)
(* the update catalog of dm/update.py.                                    *)
(*                                                                         *)
(* One request is handled without suspension once its body has been read   *)
(* (server.py:97 is the only await of oma_dm_endpoint), so a request is    *)
(* one action.  Python str and bytes values are TLA+ strings; the Python   *)
(* None is the value None below.                                           *)
(***************************************************************************)
EXTENDS Integers, Sequences, FiniteSets, TLC

----------------------------------------------------------------------------
(* Bounds of the model *)

\* requests are handled in a session while its msg_id counter is below this
MaxMsgId == 3
\* the largest number of commands in one incoming SyncBody
MaxCmds == 2
\* the idle timeout of the session store, in clock ticks
SessionTimeout == 1

----------------------------------------------------------------------------
(* Python values *)

None == "<None>"

\* Python truthiness of an Optional[str] / bytes value
Truthy(v) == v # None /\ v # ""

\* the characters of the strings the model handles character by character
Chars(s) ==
  CASE s = "" -> << >>
    [] s = "1" -> <<"1">>
    [] s = "2" -> <<"2">>
    [] s = "3" -> <<"3">>
    [] s = "200" -> <<"2","0","0">>
    [] s = "1200" -> <<"1","2","0","0">>
    [] s = "1201" -> <<"1","2","0","1">>
    [] s = "abc" -> <<"a","b","c">>
    [] s = "1.0.0" -> <<"1",".","0",".","0">>
    [] s = "3.0.4" -> <<"3",".","0",".","4">>
    [] s = "3.0.5" -> <<"3",".","0",".","5">>
    [] s = "3.0.6" -> <<"3",".","0",".","6">>
    [] s = "1.2.3.4.5" -> <<"1",".","2",".","3",".","4",".","5">>
    [] s = "1.2.3.4.9" -> <<"1",".","2",".","3",".","4",".","9">>
    [] s = "Nova-3.0.5-64" -> <<"N","o","v","a","-","3",".","0",".","5","-","6","4">>
    [] s = "Nova-3.0.5-86" -> <<"N","o","v","a","-","3",".","0",".","5","-","8","6">>
    [] s = "Nova-9.9.9-0" -> <<"N","o","v","a","-","9",".","9",".","9","-","0">>
    [] s = "Topaz" -> <<"T","o","p","a","z">>
    [] s = "Foo" -> <<"F","o","o">>
    [] s = "Bar" -> <<"B","a","r">>
    [] s = "./Software/Build" ->
         <<".","/","S","o","f","t","w","a","r","e","/","B","u","i","l","d">>
    [] s = "./DevInfo/SwV" -> <<".","/","D","e","v","I","n","f","o","/","S","w","V">>
    [] s = "./DevInfo/Mod" -> <<".","/","D","e","v","I","n","f","o","/","M","o","d">>
    [] s = "./Software/Package/PkgURL" ->
         <<".","/","S","o","f","t","w","a","r","e","/","P","a","c","k","a","g","e",
           "/","P","k","g","U","R","L">>
    [] s = "./Vendor/Unknown" ->
         <<".","/","V","e","n","d","o","r","/","U","n","k","n","o","w","n">>
    [] s = "./DevInfo/Man" ->
         <<".","/","D","e","v","I","n","f","o","/","M","a","n">>
    [] s = "./Management/SwV" ->
         <<".","/","M","a","n","a","g","e","m","e","n","t","/","S","w","V">>
    [] s = "./Command/Man" ->
         <<".","/","C","o","m","m","a","n","d","/","M","a","n">>
    [] s = "./DevDetail/HWV" ->
         <<".","/","D","e","v","D","e","t","a","i","l","/","H","W","V">>

\* the strings Chars spells
KnownStrings ==
  {"", "1", "2", "3", "200", "1200", "1201", "abc", "1.0.0", "3.0.4", "3.0.5", "3.0.6",
   "1.2.3.4.5", "1.2.3.4.9", "Nova-3.0.5-64",
   "Nova-3.0.5-86", "Nova-9.9.9-0", "Topaz", "Foo", "Bar", "./Software/Build", "./DevInfo/SwV",
   "./DevInfo/Mod", "./Software/Package/PkgURL", "./Vendor/Unknown",
   "./DevInfo/Man", "./Management/SwV",
   "./Command/Man", "./DevDetail/HWV"}

Digits == <<"0","1","2","3","4","5","6","7","8","9">>

IsDigit(c) == \E i \in 1..10 : Digits[i] = c

DigitVal(c) == (CHOOSE i \in 1..10 : Digits[i] = c) - 1

\* str(n) of a non-negative int
RECURSIVE Str(_)
Str(n) == IF n < 10 THEN Digits[n + 1] ELSE Str(n \div 10) \o Digits[(n % 10) + 1]

\* the value of a run of decimal digits
RECURSIVE DigitsVal(_)
DigitsVal(cs) ==
  IF cs = << >> THEN 0
  ELSE 10 * DigitsVal(SubSeq(cs, 1, Len(cs) - 1)) + DigitVal(cs[Len(cs)])

\* int(text): <<the number>>, or << >> where Python raises ValueError
int(text) ==
  LET cs == Chars(text) IN
    IF cs # << >> /\ \A i \in 1..Len(cs) : IsDigit(cs[i]) THEN <<DigitsVal(cs)>> ELSE << >>

\* int on the strings of the model, computed once
IntTable == [text \in KnownStrings |-> int(text)]

\* whether int(text) returns, and what
IsInt(text) == IntTable[text] # << >>
IntOf(text) == IntTable[text][1]

UpperCase == <<"A","B","C","D","E","F","G","H","I","J","K","L","M",
               "N","O","P","Q","R","S","T","U","V","W","X","Y","Z">>
LowerCase == <<"a","b","c","d","e","f","g","h","i","j","k","l","m",
               "n","o","p","q","r","s","t","u","v","w","x","y","z">>

\* str.lower(), on the characters
Lower(cs) ==
  [i \in 1..Len(cs) |->
     IF \E k \in 1..26 : UpperCase[k] = cs[i]
     THEN LowerCase[CHOOSE k \in 1..26 : UpperCase[k] = cs[i]]
     ELSE cs[i]]

\* sub in s, on the characters
Contains(s, sub) ==
  \E i \in 1..(Len(s) - Len(sub) + 1) : SubSeq(s, i, i + Len(sub) - 1) = sub

----------------------------------------------------------------------------
(* config.py: the configuration the modules import *)

SERVER_ID == "webos-update-server"
SERVER_URL == "http://updates"
DEFAULT_USERNAME == "guest"
DEFAULT_PASSWORD == "guest"
SERVER_USERNAME == "server"
SERVER_PASSWORD == "serverpw"
ALERT_CLIENT_INITIATED == 1201
ALERT_SERVER_INITIATED == 1200
ALERT_DISPLAY == 1100
ALERT_CONFIRM == 1101
ALERT_USER_INPUT == 1102
STATUS_OK == 200
STATUS_ACCEPTED_FOR_PROCESSING == 202
STATUS_AUTH_ACCEPTED == 212
STATUS_CREDENTIALS_MISSING == 401

----------------------------------------------------------------------------
(* dm/update.py: the update catalog *)

\* re.findall(r'\d+', build): the maximal digit runs, left to right
RECURSIVE DigitRuns(_, _, _)
DigitRuns(cs, i, run) ==
  IF i > Len(cs) THEN (IF run = << >> THEN << >> ELSE <<run>>)
  ELSE IF IsDigit(cs[i]) THEN DigitRuns(cs, i + 1, Append(run, cs[i]))
  ELSE (IF run = << >> THEN << >> ELSE <<run>>) \o DigitRuns(cs, i + 1, << >>)

\* _parse_build_version without the cut to four components
_parse_build_version_uncut(build) ==
  LET numbers == DigitRuns(Chars(build), 1, << >>) IN
    IF numbers = << >> THEN <<0, 0, 0, 0>>
    ELSE [k \in 1..(IF Len(numbers) > 4 THEN Len(numbers) ELSE 4) |->
            IF k <= Len(numbers) THEN DigitsVal(numbers[k]) ELSE 0]

_parse_build_version(build) ==
  LET numbers == DigitRuns(Chars(build), 1, << >>) IN
    IF numbers = << >> THEN <<0, 0, 0, 0>>
    ELSE [k \in 1..4 |-> IF k <= Len(numbers) THEN DigitsVal(numbers[k]) ELSE 0]

\* _parse_build_version on the strings of the model, computed once
VersionTable == [build \in KnownStrings |-> _parse_build_version(build)]

Version(build) == VersionTable[build]

\* Python's tuple comparison a < b
RECURSIVE TupleLess(_, _)
TupleLess(a, b) ==
  IF a = << >> THEN b # << >>
  ELSE IF b = << >> THEN FALSE
  ELSE IF a[1] # b[1] THEN a[1] < b[1]
  ELSE TupleLess(Tail(a), Tail(b))

\* the UpdatePackage records of the manifests the model starts from
PkgTopaz86 ==
  [name |-> "webos-3.0.5-86", version |-> "3.0.5", filename |-> "webos-3.0.5-86.ipk",
   size |-> 86, description |-> "webOS 3.0.5 build 86", min_version |-> "",
   target_build |-> "Nova-3.0.5-86", install_notify_url |-> ""]

PkgDoctor ==
  [name |-> "doctor", version |-> "1.0.0", filename |-> "doctor.ipk",
   size |-> 1, description |-> "Update package: doctor", min_version |-> "3.0.5",
   target_build |-> "", install_notify_url |-> "http://updates/notify"]

\* UpdateManager.packages as the values of the dict, in insertion order
Catalogs == { << >>, <<PkgTopaz86>>, <<PkgTopaz86, PkgDoctor>> }

\* the loop of check_update_available skipping a package only when the device is
\* past its target build
Applicable_up_to_target(pkg, device_version) ==
  /\ ~(Truthy(pkg.min_version)
        /\ TupleLess(device_version, Version(pkg.min_version)))
  /\ ~(Truthy(pkg.target_build)
        /\ TupleLess(Version(pkg.target_build), device_version))

\* whether the loop of check_update_available appends pkg to candidates
Applicable(pkg, device_version) ==
  /\ ~(Truthy(pkg.min_version)
        /\ TupleLess(device_version, Version(pkg.min_version)))
  /\ ~(Truthy(pkg.target_build)
        /\ ~TupleLess(device_version, Version(pkg.target_build)))

\* the key candidates are sorted by
SortKey(pkg) ==
  Version(IF Truthy(pkg.target_build) THEN pkg.target_build ELSE pkg.version)

\* pkg put into the sorted list rest after its first k elements
InsertAt(pkg, rest, k) == SubSeq(rest, 1, k) \o <<pkg>> \o SubSeq(rest, k + 1, Len(rest))

\* pkg put into the sorted list rest behind the elements of a greater or equal key:
\* a sort that reverses the order of equal keys
Insert_behind_equal(pkg, rest) ==
  InsertAt(pkg, rest,
           Cardinality({i \in 1..Len(rest) : ~TupleLess(SortKey(rest[i]), SortKey(pkg))}))

\* pkg put into the sorted list rest, behind the elements of a greater key and
\* before those of an equal one, which followed it in the unsorted list
Insert(pkg, rest) ==
  InsertAt(pkg, rest,
           Cardinality({i \in 1..Len(rest) : TupleLess(SortKey(pkg), SortKey(rest[i]))}))

\* list.sort(key, reverse=True): stable, equal keys keep their order
RECURSIVE SortDescending(_)
SortDescending(ps) ==
  IF ps = << >> THEN << >> ELSE Insert(ps[1], SortDescending(Tail(ps)))

RECURSIVE Candidates(_, _)
Candidates(pkgs, device_version) ==
  IF pkgs = << >> THEN << >>
  ELSE (IF Applicable(pkgs[1], device_version) THEN <<pkgs[1]>> ELSE << >>)
       \o Candidates(Tail(pkgs), device_version)

\* UpdateManager.check_update_available: <<pkg>> when it returns a package, << >> for None
\* lines 237-245: the first of the sorted candidates, << >> when there is none
Newest(candidates) ==
  IF candidates = << >> THEN << >> ELSE <<SortDescending(candidates)[1]>>

check_update_available(pkgs, device_build) ==
  IF pkgs = << >> THEN << >> ELSE Newest(Candidates(pkgs, Version(device_build)))

get_package_url(pkg) == SERVER_URL \o "/packages/" \o pkg.filename

----------------------------------------------------------------------------
(* syncml/session.py: Session and SessionManager *)

\* SessionState, by value
INIT == "init"
AUTHENTICATED == "authenticated"
MANAGEMENT == "management"
UPDATE_AVAILABLE == "update_available"
DOWNLOADING == "downloading"
COMPLETE == "complete"
ERROR == "error"

\* DeviceInfo()
NewDeviceInfo ==
  [device_id |-> "", manufacturer |-> "", model |-> "", firmware_version |-> "",
   software_version |-> "", hardware_version |-> "", current_build |-> "",
   dm_version |-> "", language |-> ""]

\* Session(session_id, device_id).  idle is time.time() - last_activity, in ticks,
\* counted up to SessionTimeout + 1.  Two fields record what the server has sent
\* for this Session object: emitted lists the MsgIDs of its responses, published
\* holds the NextNonce values of their SyncHdr.
NewSession(session_id, device_id) ==
  [session_id |-> session_id, device_id |-> device_id, state |-> INIT, msg_id |-> 0,
   idle |-> 0, device_info |-> NewDeviceInfo, authenticated |-> FALSE,
   username |-> "", client_nonce |-> "", server_nonce |-> "",
   command_results |-> {}, emitted |-> << >>, published |-> {}]

\* Session.next_msg_id without its increment
next_msg_id_no_increment(session) == [session EXCEPT !.idle = 0]

\* Session.next_msg_id: the session after the call; the call returns str(msg_id) of it
next_msg_id(session) == [session EXCEPT !.msg_id = @ + 1, !.idle = 0]

\* Session.is_expired
is_expired(session, timeout) == session.idle > timeout

\* the if/elif chain of Session.update_device_info: the DeviceInfo field a path
\* selects, None when it selects none
DeviceInfoField(path) ==
  LET path_lower == Lower(Chars(path))
      has(w) == Contains(path_lower, w)
  IN IF has(<<"d","e","v","i","d">>) THEN "device_id"
     ELSE IF has(<<"m","a","n">>) /\ ~has(<<"c","o","m","m","a","n","d">>)
       THEN "manufacturer"
     ELSE IF has(<<"m","o","d">>) THEN "model"
     ELSE IF has(<<"f","w","v">>) \/ has(<<"f","m","v">>) THEN "firmware_version"
     ELSE IF has(<<"s","w","v">>) THEN "software_version"
     ELSE IF has(<<"h","w","v">>) THEN "hardware_version"
     ELSE IF has(<<"b","u","i","l","d">>) THEN "current_build"
     ELSE IF has(<<"d","m","v">>) THEN "dm_version"
     ELSE IF has(<<"l","a","n","g">>) THEN "language"
     ELSE None

\* DeviceInfoField on the strings of the model, computed once
FieldTable == [path \in KnownStrings |-> DeviceInfoField(path)]

\* Session.update_device_info
\* the assignment of the branch update_device_info takes
SetField(session, field, value) ==
  IF field = None THEN session
  ELSE [session EXCEPT !.device_info = [@ EXCEPT ![field] = value]]

update_device_info(session, path, value) == SetField(session, FieldTable[path], value)

\* the value of SessionManager.sessions.get(session_id) when the id is not a key
NoSession == [session_id |-> None]

\* SessionManager.create_session with a session_id; nonce is os.urandom(16)
create_session(store, device_id, session_id, nonce) ==
  [store EXCEPT ![session_id] =
     [NewSession(session_id, device_id) EXCEPT !.server_nonce = nonce]]

\* SessionManager.get_session without its test of is_expired
get_session_unexpiring(store, session_id) == store[session_id] # NoSession

\* SessionManager.get_session: whether it returns a session
get_session(store, session_id) ==
  store[session_id] # NoSession /\ ~is_expired(store[session_id], SessionTimeout)

\* SessionManager.get_or_create_session: the store after the call; the call returns
\* store[session_id] of it
get_or_create_session(store, device_id, session_id, nonce) ==
  IF get_session(store, session_id) THEN store
  ELSE create_session(store, device_id, session_id, nonce)

\* SessionManager.cleanup_expired without its test of is_expired
cleanup_all(store) == [sid \in DOMAIN store |-> NoSession]

\* SessionManager.cleanup_expired: the store after the call
cleanup_expired(store) ==
  [sid \in DOMAIN store |->
     IF store[sid] # NoSession /\ is_expired(store[sid], SessionTimeout) THEN NoSession
     ELSE store[sid]]

----------------------------------------------------------------------------
(* syncml/auth.py: the MAC.  md5, HMAC-MD5 and base64 are injective on the  *)
(* values of the model, so a digest is the tuple of what is hashed.         *)

\* the MAC computed without the body
compute_hmac_without_body(username, password, nonce, body) ==
  [key |-> username \o ":" \o password, nonce |-> nonce, body |-> ""]

compute_hmac(username, password, nonce, body) ==
  [key |-> username \o ":" \o password, nonce |-> nonce, body |-> body]

\* base64.b64decode of the NextNonce texts of the model: <<bytes>>, or << >> where
\* it raises binascii.Error
b64decode(text) ==
  CASE text = "Y24x" -> <<"cn1">>
    [] text = "Y24y" -> <<"cn2">>
    [] text = "====" -> <<"">>
    [] text = "abc" -> << >>

----------------------------------------------------------------------------
(* syncml/builder.py: SyncMLBuilder.  An element is a record of its tag and *)
(* its children's texts; cmd_id_counter is the builder's counter.           *)

\* SyncMLBuilder.next_cmd_id: the counter after the call; it returns str(counter)
next_cmd_id(cmd_id_counter) == cmd_id_counter + 1

\* SyncMLBuilder.reset_cmd_id
reset_cmd_id == 0

\* StatusBuilder(cmd_id="", ...)
StatusBuilder(msg_ref, cmd_ref, cmd, data, target_ref, source_ref) ==
  [cmd_id |-> "", msg_ref |-> msg_ref, cmd_ref |-> cmd_ref, cmd |-> cmd, data |-> data,
   target_ref |-> target_ref, source_ref |-> source_ref]

\* SyncMLBuilder._build_status, called with the counter at cmd_id_counter
_build_status(cmd_id_counter, status) ==
  [tag |-> "Status", CmdID |-> Str(next_cmd_id(cmd_id_counter)),
   MsgRef |-> status.msg_ref, CmdRef |-> status.cmd_ref, Cmd |-> status.cmd,
   Data |-> Str(status.data),
   TargetRef |-> IF Truthy(status.target_ref) THEN status.target_ref ELSE None,
   SourceRef |-> IF Truthy(status.source_ref) THEN status.source_ref ELSE None]

\* SyncMLBuilder.build_get, called with the counter at cmd_id_counter
build_get(cmd_id_counter, targets) ==
  [tag |-> "Get", CmdID |-> Str(next_cmd_id(cmd_id_counter)),
   items |-> [i \in 1..Len(targets) |-> [target |-> targets[i]]]]

\* SyncMLBuilder.build_replace; items are ItemBuilder(target=, data=)
build_replace(cmd_id_counter, items) ==
  [tag |-> "Replace", CmdID |-> Str(next_cmd_id(cmd_id_counter)), items |-> items]

\* SyncMLBuilder.build_exec, without data
build_exec(cmd_id_counter, target) ==
  [tag |-> "Exec", CmdID |-> Str(next_cmd_id(cmd_id_counter)),
   items |-> <<[target |-> target]>>]

\* SyncMLBuilder.build_results; items are ItemBuilder(source=, data=)
build_results(cmd_id_counter, msg_ref, cmd_ref, items) ==
  [tag |-> "Results", CmdID |-> Str(next_cmd_id(cmd_id_counter)),
   MsgRef |-> msg_ref, CmdRef |-> cmd_ref, items |-> items]

\* SyncMLBuilder._build_header: the children of SyncHdr
_build_header(session_id, msg_id, target, source) ==
  [VerDTD |-> "1.2", VerProto |-> "DM/1.2", SessionID |-> session_id, MsgID |-> msg_id,
   Target |-> target, Source |-> IF Truthy(source) THEN source ELSE SERVER_ID,
   Meta |-> None]

\* the statuses as Status elements, the counter advancing from cmd_id_counter
RECURSIVE BuildStatuses(_, _)
BuildStatuses(cmd_id_counter, statuses) ==
  IF statuses = << >> THEN << >>
  ELSE <<_build_status(cmd_id_counter, statuses[1])>>
       \o BuildStatuses(next_cmd_id(cmd_id_counter), Tail(statuses))

\* SyncMLBuilder.build_response appending the commands before the statuses
build_response_commands_first(session_id, msg_id, target, source, statuses, commands) ==
  [hdr |-> _build_header(session_id, msg_id, target, source),
   body |-> commands \o BuildStatuses(reset_cmd_id, statuses) \o <<[tag |-> "Final"]>>]

\* SyncMLBuilder.build_response with is_final=False
build_response_not_final(session_id, msg_id, target, source, statuses, commands) ==
  [hdr |-> _build_header(session_id, msg_id, target, source),
   body |-> BuildStatuses(reset_cmd_id, statuses) \o commands]

\* SyncMLBuilder.build_response with is_final=True: SyncHdr and the children of
\* SyncBody in document order
build_response(session_id, msg_id, target, source, statuses, commands) ==
  [hdr |-> _build_header(session_id, msg_id, target, source),
   body |-> BuildStatuses(reset_cmd_id, statuses) \o commands \o <<[tag |-> "Final"]>>]

----------------------------------------------------------------------------
(* server.py: the command handlers.  ctx is what process_dm_message holds  *)
(* while it runs: the session, its statuses and commands lists, the         *)
(* builder's counter, and whether an exception has been raised.             *)

\* x or ""
OrEmpty(x) == IF x = None THEN "" ELSE x

\* f"{x}"
Format(x) == IF x = None THEN "None" ELSE x

Raise(ctx) == [ctx EXCEPT !.raised = TRUE]

DEVICE_INFO_TARGETS ==
  <<"./DevInfo/DevId", "./DevInfo/Man", "./DevInfo/Mod", "./DevInfo/FwV",
    "./DevInfo/SwV", "./DevInfo/HwV", "./Software/Build">>

\* handle_alert, and lines 243-245 of process_dm_message
handle_alert(ctx, cmd, message) ==
  IF Truthy(cmd.data) /\ ~IsInt(cmd.data) THEN Raise(ctx)
  ELSE
    LET alert_code == IF Truthy(cmd.data) THEN IntOf(cmd.data) ELSE 0
        status == StatusBuilder(message.msg_id, cmd.cmd_id, "Alert", STATUS_OK, None, None)
    IN IF alert_code = ALERT_CLIENT_INITIATED
       THEN [ctx EXCEPT !.session.state = AUTHENTICATED,
                        !.statuses = Append(@, status),
                        !.commands = Append(@, build_get(ctx.cmd_id_counter,
                                                         DEVICE_INFO_TARGETS)),
                        !.cmd_id_counter = next_cmd_id(@)]
       ELSE [ctx EXCEPT !.statuses = Append(@, status)]

\* handle_status moving the session to Downloading where lines 361-366 log that the
\* device acknowledged the download
handle_status_downloading(ctx, cmd) ==
  IF Truthy(cmd.data) /\ ~IsInt(cmd.data) THEN Raise(ctx)
  ELSE
    LET status_code == IF Truthy(cmd.data) THEN IntOf(cmd.data) ELSE 0
        target_ref == OrEmpty(cmd.target_ref)
        key == Format(cmd.cmd_ref) \o "_" \o target_ref
    IN [ctx EXCEPT !.session.command_results =
          {e \in @ : e.key # key}
          \cup {[key |-> key, cmd |-> cmd.cmd, status |-> status_code,
                 target |-> target_ref]},
                   !.session.state =
          IF target_ref = "./Software/Operations/DownloadAndInstall" THEN DOWNLOADING
          ELSE @]

\* handle_status, and lines 247-249 of process_dm_message
handle_status(ctx, cmd) ==
  IF Truthy(cmd.data) /\ ~IsInt(cmd.data) THEN Raise(ctx)
  ELSE
    LET status_code == IF Truthy(cmd.data) THEN IntOf(cmd.data) ELSE 0
        target_ref == OrEmpty(cmd.target_ref)
        key == Format(cmd.cmd_ref) \o "_" \o target_ref
    IN [ctx EXCEPT !.session.command_results =
          {e \in @ : e.key # key}
          \cup {[key |-> key, cmd |-> cmd.cmd, status |-> status_code,
                 target |-> target_ref]}]

\* the loop of handle_results over cmd.items
RECURSIVE ApplyResults(_, _)
ApplyResults(session, items) ==
  IF items = << >> THEN session
  ELSE ApplyResults(update_device_info(session, OrEmpty(items[1].source),
                                       OrEmpty(items[1].data)),
                    Tail(items))

\* handle_results, and lines 251-253 of process_dm_message
\* lines 381-391 of handle_results; fed is the session after the loop over the items
ResultsReply(ctx, cmd, message, fed) ==
  [ctx EXCEPT !.session =
                IF fed.state = AUTHENTICATED THEN [fed EXCEPT !.state = MANAGEMENT]
                ELSE fed,
              !.statuses =
                Append(@, StatusBuilder(message.msg_id, cmd.cmd_id, "Results", STATUS_OK,
                                        None, None))]

\* handle_results moving every session to Management
handle_results_to_management(ctx, cmd, message) ==
  [ResultsReply(ctx, cmd, message, ApplyResults(ctx.session, cmd.items))
     EXCEPT !.session.state = MANAGEMENT]

handle_results(ctx, cmd, message) ==
  ResultsReply(ctx, cmd, message, ApplyResults(ctx.session, cmd.items))

\* handle_replace, and lines 255-257 of process_dm_message
handle_replace(ctx, cmd, message) ==
  [ctx EXCEPT !.statuses =
     Append(@, StatusBuilder(message.msg_id, cmd.cmd_id, "Replace", STATUS_OK, None, None))]

\* the if/elif of handle_get on an item target
TargetKind(target) ==
  IF Contains(Chars(target), <<"B","u","i","l","d">>) THEN "Build"
  ELSE IF Contains(Chars(target), <<"P","k","g","U","R","L">>) THEN "PkgURL"
  ELSE None

\* TargetKind on the strings of the model, computed once
TargetTable == [target \in KnownStrings |-> TargetKind(target)]

\* the value handle_get finds for one item target; None when it finds none
\* lines 425-426: the URL of the package found, None when none is
PkgUrlValue(pkg) == IF pkg # << >> THEN get_package_url(pkg[1]) ELSE None

GetValue(session, pkgs, target) ==
  IF TargetTable[target] = "Build"
  THEN (IF Truthy(session.device_info.current_build)
        THEN session.device_info.current_build ELSE "Nova-3.0.5-64")
  ELSE IF TargetTable[target] = "PkgURL"
  THEN PkgUrlValue(check_update_available(pkgs, session.device_info.current_build))
  ELSE None

\* the loop of handle_get over cmd.items: the ItemBuilder list results_items
\* lines 430-434: the ItemBuilder appended for a value found
ResultsItem(target, value) ==
  IF Truthy(value) THEN <<[source |-> target, data |-> value]>> ELSE << >>

RECURSIVE ResultsItems(_, _, _)
ResultsItems(session, pkgs, items) ==
  IF items = << >> THEN << >>
  ELSE ResultsItem(OrEmpty(items[1].target),
                   GetValue(session, pkgs, OrEmpty(items[1].target)))
       \o ResultsItems(session, pkgs, Tail(items))

\* lines 436-451 of handle_get, and lines 259-263 of process_dm_message
GetReply(ctx, cmd, message, results_items) ==
  LET status == StatusBuilder(message.msg_id, cmd.cmd_id, "Get", STATUS_OK, None, None)
  IN IF results_items # << >>
     THEN [ctx EXCEPT !.statuses = Append(@, status),
                      !.commands = Append(@, build_results(ctx.cmd_id_counter,
                                            message.msg_id, cmd.cmd_id, results_items)),
                      !.cmd_id_counter = next_cmd_id(@)]
     ELSE [ctx EXCEPT !.statuses = Append(@, status)]

\* handle_get building its Results whether or not it found a value (no test at
\* line 444)
handle_get_results_always(ctx, cmd, message, pkgs) ==
  [ctx EXCEPT
     !.statuses = Append(@, StatusBuilder(message.msg_id, cmd.cmd_id, "Get", STATUS_OK,
                                          None, None)),
     !.commands = Append(@, build_results(ctx.cmd_id_counter, message.msg_id, cmd.cmd_id,
                                          ResultsItems(ctx.session, pkgs, cmd.items))),
     !.cmd_id_counter = next_cmd_id(@)]

handle_get(ctx, cmd, message, pkgs) ==
  GetReply(ctx, cmd, message, ResultsItems(ctx.session, pkgs, cmd.items))

\* lines 265-273 passing over a command of any other name
handle_unknown_unanswered(ctx, cmd, message) == ctx

\* lines 265-273 of process_dm_message: a command of any other name
handle_unknown(ctx, cmd, message) ==
  [ctx EXCEPT !.statuses =
     Append(@, StatusBuilder(message.msg_id, cmd.cmd_id, cmd.name, STATUS_OK, None, None))]

\* line 459 without its fallback to the software version
DeviceBuildOnlyCurrent(session) == session.device_info.current_build

\* the build check_and_send_update looks an update up for
DeviceBuild(session) ==
  IF Truthy(session.device_info.current_build) THEN session.device_info.current_build
  ELSE session.device_info.software_version

\* the items of the Replace of check_and_send_update
ReplaceItems(pkg) ==
  <<[target |-> "./Software/Package/PkgName", data |-> pkg.name],
    [target |-> "./Software/Package/PkgVersion", data |-> pkg.version],
    [target |-> "./Software/Package/PkgURL", data |-> get_package_url(pkg)],
    [target |-> "./Software/Package/PkgSize", data |-> Str(pkg.size)],
    [target |-> "./Software/Package/PkgDesc", data |-> pkg.description]>>
  \o (IF Truthy(pkg.install_notify_url)
      THEN <<[target |-> "./Software/Package/PkgInstallNotify",
              data |-> pkg.install_notify_url]>>
      ELSE << >>)

\* lines 468-497 of check_and_send_update; pkg is what check_update_available returned
Offer(ctx, pkg) ==
  IF pkg = << >> THEN ctx
  ELSE [ctx EXCEPT
          !.session.state = UPDATE_AVAILABLE,
          !.commands = @ \o <<build_replace(ctx.cmd_id_counter, ReplaceItems(pkg[1])),
                              build_exec(next_cmd_id(ctx.cmd_id_counter),
                                         "./Software/Operations/DownloadAndInstall")>>,
          !.cmd_id_counter = next_cmd_id(next_cmd_id(@))]

\* lines 461-466 of check_and_send_update
OfferFor(ctx, pkgs, device_build) ==
  IF ~Truthy(device_build) THEN ctx
  ELSE Offer(ctx, check_update_available(pkgs, device_build))

\* check_and_send_update, and line 278 of process_dm_message
check_and_send_update(ctx, pkgs) == OfferFor(ctx, pkgs, DeviceBuild(ctx.session))

\* one pass of the loop of process_dm_message (lines 239-273)
Dispatch(ctx, cmd, message, pkgs) ==
  IF cmd.name = "Alert" THEN handle_alert(ctx, cmd, message)
  ELSE IF cmd.name = "Status" THEN handle_status(ctx, cmd)
  ELSE IF cmd.name = "Results" THEN handle_results(ctx, cmd, message)
  ELSE IF cmd.name = "Replace" THEN handle_replace(ctx, cmd, message)
  ELSE IF cmd.name = "Get" THEN handle_get(ctx, cmd, message, pkgs)
  ELSE handle_unknown(ctx, cmd, message)

\* the loop of process_dm_message; an exception ends it
RECURSIVE RunCommands(_, _, _, _)
RunCommands(ctx, cmds, message, pkgs) ==
  IF cmds = << >> \/ ctx.raised THEN ctx
  ELSE RunCommands(Dispatch(ctx, cmds[1], message, pkgs), Tail(cmds), message, pkgs)

\* lines 275-278 of process_dm_message
UpdateStep(ctx, pkgs) ==
  IF ctx.session.state \in {AUTHENTICATED, MANAGEMENT}
  THEN check_and_send_update(ctx, pkgs) ELSE ctx

\* lines 227-236: the Status for SyncHdr
HdrStatus(session, message) ==
  StatusBuilder(message.msg_id, "0", "SyncHdr",
                IF session.authenticated THEN STATUS_AUTH_ACCEPTED
                ELSE STATUS_CREDENTIALS_MISSING,
                message.target, message.source)

\* lines 220-236: what process_dm_message holds when it enters the loop; stepped is
\* the session after next_msg_id
EnterLoop(stepped, message) ==
  [session |-> stepped, statuses |-> <<HdrStatus(stepped, message)>>, commands |-> << >>,
   cmd_id_counter |-> 0, raised |-> FALSE]

\* lines 275-278 unless the loop raised; processed is the session as the loop left it
LeaveLoop(ran, pkgs) ==
  [ctx |-> IF ran.raised THEN ran ELSE UpdateStep(ran, pkgs), processed |-> ran.session]

\* lines 280-291: the session process_dm_message leaves, whether it raised, and else
\* <<the response it returns>>
Return(session_id, message, left) ==
  [session |-> left.ctx.session, raised |-> left.ctx.raised, processed |-> left.processed,
   response |-> IF left.ctx.raised THEN << >>
                ELSE <<build_response(session_id, Str(left.ctx.session.msg_id),
                                      message.source, SERVER_ID, left.ctx.statuses,
                                      left.ctx.commands)>>]

\* process_dm_message.  The response's MsgID is the value next_msg_id returned,
\* str(session.msg_id), which nothing changes afterwards
process_dm_message(session, message, pkgs) ==
  Return(session.session_id, message,
         LeaveLoop(RunCommands(EnterLoop(next_msg_id(session), message), message.commands,
                               message, pkgs),
                   pkgs))

----------------------------------------------------------------------------
(* server.py: oma_dm_endpoint *)

\* lines 127-134: the client's NextNonce, when the header's Meta has one that decodes
ExtractClientNonce(session, message) ==
  IF Truthy(message.NextNonce) /\ b64decode(message.NextNonce) # << >>
  THEN [session EXCEPT !.client_nonce = b64decode(message.NextNonce)[1]]
  ELSE session

\* line 146: the nonce the client's MAC is verified with
VerifyNonce(session) == IF Truthy(session.server_nonce) THEN session.server_nonce ELSE ""

\* lines 141-152: the MAC the server expects in the x-syncml-hmac header.  The
\* header is << >> when the request has none, else <<its username and mac parts>>
ExpectedMac(session, hmac_header, body) ==
  compute_hmac(IF hmac_header[1].username = None THEN DEFAULT_USERNAME
               ELSE hmac_header[1].username,
               DEFAULT_PASSWORD, VerifyNonce(session), body)

\* lines 154-163: session.authenticated once an unauthenticated session's request
\* has been looked at; verified tells whether a MAC was presented, and matched
\* whether it equalled the expected one
Authenticated(verified, matched) ==
  IF verified THEN (IF matched THEN TRUE ELSE TRUE) ELSE TRUE

\* lines 136-166 verifying every request, and rejecting a MAC that does not match
AuthenticateEveryRequest(session, hmac_header, message, body) ==
  [session EXCEPT
     !.authenticated =
        hmac_header = << >>
        \/ hmac_header[1].mac = ExpectedMac(session, hmac_header, body),
     !.username = IF Truthy(message.cred_data) THEN message.cred_data ELSE "guest"]

\* lines 136-166: authentication
Authenticate(session, hmac_header, message, body) ==
  IF ~session.authenticated
  THEN LET verified == hmac_header # << >>
           matched == verified
                      /\ hmac_header[1].mac = ExpectedMac(session, hmac_header, body)
       IN [session EXCEPT
             !.authenticated = Authenticated(verified, matched),
             !.username = IF Truthy(message.cred_data) THEN message.cred_data ELSE "guest"]
  ELSE session

\* line 190 reading the local client_nonce of lines 103-130 instead of the session's
NonceOfThisRequest(session, message) ==
  IF Truthy(message.NextNonce) /\ b64decode(message.NextNonce) # << >>
  THEN b64decode(message.NextNonce)[1]
  ELSE ""

\* line 190: the nonce of the response's MAC
NonceForResponse(session, message) ==
  IF Truthy(session.client_nonce) THEN session.client_nonce ELSE ""

\* lines 185-201: the headers of the response, as <<the x-syncml-hmac header>> or << >>
ResponseHeaders(session, hmac_header, message, response_body) ==
  IF hmac_header # << >>
  THEN <<[algorithm |-> "MD5", username |-> SERVER_USERNAME,
          mac |-> compute_hmac(SERVER_USERNAME, SERVER_PASSWORD,
                               NonceForResponse(session, message), response_body)]>>
  ELSE << >>

\* the Session object after lines 169-207, with what it has sent
Sent(result) ==
  IF result.raised THEN result.session
  ELSE [result.session EXCEPT
          !.emitted = Append(@, result.response[1].hdr.MsgID),
          !.published = @ \cup (IF result.response[1].hdr.Meta = None THEN {}
                                ELSE {result.response[1].hdr.Meta})]

\* lines 169-211: the store the endpoint leaves and the exchange it ends; session1
\* is the session before authentication, result what process_dm_message gave;
\* created tells that the session was created for this request, and stale that the
\* store then held an expired session under its id
Reply(store1, created, stale, session1, hmac_header, message, result) ==
  [store |-> [store1 EXCEPT ![message.session_id] = Sent(result)],
   http |-> [phase |-> IF result.raised THEN "failed" ELSE "done",
             status_code |-> IF result.raised THEN 500 ELSE 200,
             hmac_header |-> hmac_header, message |-> message,
             created |-> created, stale |-> stale,
             verified |-> ~session1.authenticated /\ hmac_header # << >>,
             verify_nonce |-> IF ~session1.authenticated /\ hmac_header # << >>
                              THEN VerifyNonce(session1) ELSE "",
             matched |-> /\ ~session1.authenticated
                         /\ hmac_header # << >>
                         /\ hmac_header[1].mac = ExpectedMac(session1, hmac_header, message),
             processed |-> result.processed,
             response |-> result.response,
             response_headers |->
               IF result.raised THEN << >>
               ELSE ResponseHeaders(result.session, hmac_header, message,
                                    result.response[1])]]

\* lines 136-211, from the session lines 127-134 leave
Serve(store1, created, stale, session1, pkgs, hmac_header, message) ==
  Reply(store1, created, stale, session1, hmac_header, message,
        process_dm_message(Authenticate(session1, hmac_header, message, message),
                           message, pkgs))

\* lines 127-211, from the store get_or_create_session leaves
Receive(store1, created, stale, pkgs, hmac_header, message) ==
  Serve(store1, created, stale, ExtractClientNonce(store1[message.session_id], message), pkgs,
        hmac_header, message)

\* oma_dm_endpoint from line 112 on, for a body that parses to message: the store
\* it leaves and the exchange it ends.  nonce is the os.urandom(16) of a
\* create_session.  The body the MACs are computed over is the message.
Endpoint(store, pkgs, hmac_header, message, nonce) ==
  Receive(get_or_create_session(store, message.source, message.session_id, nonce),
          ~get_session(store, message.session_id),
          store[message.session_id] # NoSession /\ ~get_session(store, message.session_id),
          pkgs, hmac_header, message)

----------------------------------------------------------------------------
(* The requests of the model *)

\* the keys session_manager.sessions may get
SessionIds == {"42", "43"}
\* the SessionID of the requests of one dialogue
DialogueIds == {"42"}
Devices == {"DEV-A", "DEV-B"}
\* the values os.urandom(16) takes
ServerNonces == {"sn1", "sn2"}
\* SyncHdr/Meta/NextNonce of incoming messages: none, the Base64 of b"cn1", a text
\* that decodes to b"", a text that does not decode
NextNonces == {None, "Y24x", "====", "abc"}

Command(name, cmd_ref, cmd, data, items) ==
  [name |-> name, cmd_id |-> "", cmd_ref |-> cmd_ref, cmd |-> cmd, target_ref |-> None,
   data |-> data, items |-> items]

ResultItem(source, data) == [target |-> None, source |-> source, data |-> data]
TargetItem(target) == [target |-> target, source |-> None, data |-> None]

Alert1201 == Command("Alert", None, None, "1201", << >>)
AlertBad == Command("Alert", None, None, "abc", << >>)
StatusOk == Command("Status", "3", "Get", "200", << >>)
StatusBad == Command("Status", "3", "Get", "abc", << >>)
StatusExec ==
  [Command("Status", "4", "Exec", None, << >>)
     EXCEPT !.target_ref = "./Software/Operations/DownloadAndInstall"]
ResultsBuild64 ==
  Command("Results", "3", None, None, <<ResultItem("./Software/Build", "Nova-3.0.5-64")>>)
GetBuild == Command("Get", None, None, None, <<TargetItem("./Software/Build")>>)

\* commands of names process_dm_message has no branch for
PutEmpty == Command("Put", None, None, None, << >>)
AddBuild ==
  Command("Add", "3", "Get", "abc", <<ResultItem("./Software/Build", "Nova-9.9.9-0")>>)

\* the commands of the messages that carry one command
CommandPool ==
  { Alert1201, AlertBad, StatusOk, ResultsBuild64, GetBuild,
    Command("Alert", None, None, "1200", << >>),
    Command("Results", "3", None, None, <<ResultItem("./Software/Build", "Nova-9.9.9-0")>>),
    Command("Results", "3", None, None, <<ResultItem("./DevInfo/SwV", "3.0.5")>>),
    Command("Replace", None, None, None, <<ResultItem("./Software/Build", "Nova-3.0.5-64")>>),
    Command("Get", None, None, None, <<TargetItem("./Software/Package/PkgURL")>>),
    Command("Get", None, None, None, <<TargetItem("./Vendor/Unknown")>>),
    PutEmpty, StatusBad, StatusExec,
    Command("Get", None, None, None,
            <<TargetItem("./Vendor/Unknown"), TargetItem("./Software/Package/PkgURL")>>),
    Command("Get", None, None, None,
            <<TargetItem("./Vendor/Unknown"), TargetItem("./Software/Build"),
              TargetItem("./Software/Package/PkgURL")>>),
    Command("Results", "3", None, None,
            <<ResultItem("./Software/Build", "Nova-3.0.5-64"),
              ResultItem("./Software/Build", "Nova-9.9.9-0")>>) }

\* the commands of the messages that carry several
SequencePool == {Alert1201, AlertBad, StatusOk, ResultsBuild64, GetBuild}

\* the commands of a SyncBody, with the CmdIDs 1, 2, ... a client gives them
Numbered(cmds) == [i \in 1..Len(cmds) |-> [cmds[i] EXCEPT !.cmd_id = Str(i)]]

\* the bodies that mix them with the others
MixedBodies ==
  {Numbered(<<AddBuild>>), Numbered(<<PutEmpty, AddBuild>>),
   Numbered(<<Alert1201, AddBuild>>), Numbered(<<AddBuild, ResultsBuild64>>)}

Bodies ==
  {<< >>} \cup {Numbered(<<c>>) : c \in CommandPool} \cup MixedBodies
  \cup UNION {{Numbered(cmds) : cmds \in [1..n -> SequencePool]} : n \in 2..MaxCmds}

Message(session_id, msg_id, source, cred_data, NextNonce, commands) ==
  [session_id |-> session_id, msg_id |-> msg_id, source |-> source, target |-> SERVER_ID,
   cred_data |-> cred_data, NextNonce |-> NextNonce, commands |-> commands]

\* a request: the x-syncml-hmac header (<< >> for none) and the parsed body
Req(hmac_header, message) == [hmac_header |-> hmac_header, message |-> message]

\* the requests of the management dialogue: every body, from one device, without
\* credentials, NextNonce or MAC
BodyRequests ==
  {Req(<< >>, Message(sid, "1", "DEV-A", None, None, body)) :
     sid \in DialogueIds, body \in Bodies}

\* the x-syncml-hmac headers a client may send with message: none, or the MAC it
\* computes over the body with the default credentials and the nonce it assumes
HmacHeaders(message) ==
  {<< >>} \cup
  {<<[username |-> DEFAULT_USERNAME,
      mac |-> compute_hmac(DEFAULT_USERNAME, DEFAULT_PASSWORD, n, message)]>> :
     n \in {"", "sn1"}}

AuthMessages ==
  {Message(sid, "2", src, IF src = "DEV-A" THEN None ELSE "user1", nn, body) :
     sid \in DialogueIds, src \in Devices, nn \in NextNonces,
     body \in {<< >>, Numbered(<<Alert1201>>), Numbered(<<AlertBad>>)}}

\* the requests of the authentication: every header, with few bodies
AuthRequests ==
  UNION {{Req(h, message) : h \in HmacHeaders(message)} : message \in AuthMessages}

----------------------------------------------------------------------------
(* The state *)

VARIABLES
  sessions,  \* session_manager.sessions: session_id -> Session, NoSession for no key
  packages,  \* update_manager.packages
  http       \* the exchange the endpoint has handled and the transport has yet to answer

vars == <<sessions, packages, http>>

Idle == [phase |-> "idle"]

Init ==
  /\ sessions = [sid \in SessionIds |-> NoSession]
  /\ packages \in Catalogs
  /\ http = Idle

\* the endpoint has handled a request: out is what it leaves
Handled(out) ==
  /\ sessions' = out.store
  /\ http' = out.http

\* a POST to /palmcsext/swupdateserver whose body parses, out of requests; a
\* session it creates draws its nonce from nonces
Request(requests, nonces) ==
  /\ http.phase = "idle"
  /\ \E req \in requests :
       LET sid == req.message.session_id
           found == get_session(sessions, sid)
       IN /\ found => sessions[sid].msg_id < MaxMsgId
          /\ \E nonce \in IF found THEN {""} ELSE nonces :
               Handled(Endpoint(sessions, packages, req.hmac_header, req.message, nonce))
  /\ UNCHANGED packages

\* a POST whose body does not parse: SyncMLParser.parse raises, line 209 catches
MalformedRequest ==
  /\ http.phase = "idle"
  /\ http' = [phase |-> "failed", status_code |-> 500]
  /\ UNCHANGED <<sessions, packages>>

\* the transport sends the response, or the HTTP 500
Respond ==
  /\ http.phase # "idle"
  /\ http' = Idle
  /\ UNCHANGED <<sessions, packages>>

\* time passes between requests
Tick ==
  /\ http.phase = "idle"
  /\ \E sid \in SessionIds : sessions[sid] # NoSession
                               /\ sessions[sid].idle <= SessionTimeout
  /\ sessions' = [sid \in SessionIds |->
                    IF sessions[sid] # NoSession /\ sessions[sid].idle <= SessionTimeout
                    THEN [sessions[sid] EXCEPT !.idle = @ + 1]
                    ELSE sessions[sid]]
  /\ UNCHANGED <<packages, http>>

\* the management dialogue of one device
Next == Request(BodyRequests, {"sn1"}) \/ MalformedRequest \/ Respond \/ Tick

Spec == Init /\ [][Next]_vars

\* the authentication of the devices, with an empty catalog
InitAuth ==
  /\ sessions = [sid \in SessionIds |-> NoSession]
  /\ packages = << >>
  /\ http = Idle

NextAuth == Request(AuthRequests, ServerNonces) \/ MalformedRequest \/ Respond \/ Tick

SpecAuth == InitAuth /\ [][NextAuth]_vars

\* the requests of two dialogues with a store that is swept
SweepRequests ==
  {Req(<< >>, Message(sid, "1", "DEV-A", None, None, body)) :
     sid \in SessionIds, body \in {<< >>, Numbered(<<Alert1201>>)}}

\* a call of session_manager.cleanup_expired(), at any point where no handler runs:
\* between two requests, or between a handler's return and the transport's send
Sweep ==
  /\ sessions' = cleanup_expired(sessions)
  /\ UNCHANGED <<packages, http>>

NextSweep ==
  Request(SweepRequests, {"sn1"}) \/ MalformedRequest \/ Respond \/ Tick \/ Sweep

SpecSweep == InitAuth /\ [][NextSweep]_vars

\* the same, where the transport answers every exchange and time passes
SpecAuthFair == SpecAuth /\ WF_vars(Respond) /\ WF_vars(Tick)

----------------------------------------------------------------------------
(* Session.update_device_info on its own, called on the session of a device *)

\* the paths update_device_info is called with
DevicePaths ==
  {"", "./DevInfo/Man", "./DevInfo/Mod", "./DevInfo/SwV",
   "./Software/Build", "./DevDetail/HWV", "./Management/SwV",
   "./Command/Man", "./Vendor/Unknown"}

\* the values it is called with
DeviceValues == {"x", "y"}

InitDeviceInfo ==
  /\ sessions = [sid \in SessionIds |->
                   IF sid \in DialogueIds THEN NewSession(sid, "DEV-A") ELSE NoSession]
  /\ packages = << >>
  /\ http = Idle

\* a call of session.update_device_info(path, value); the exchange keeps the
\* arguments and the device information the call met
UpdateDeviceInfo ==
  /\ http.phase = "idle"
  /\ \E sid \in DialogueIds, path \in DevicePaths, value \in DeviceValues :
       /\ sessions' = [sessions EXCEPT ![sid] = update_device_info(@, path, value)]
       /\ http' = [phase |-> "updated", session_id |-> sid, path |-> path,
                   value |-> value, before |-> sessions[sid].device_info]
  /\ UNCHANGED packages

\* the call returns
UpdateReturned ==
  /\ http.phase = "updated"
  /\ http' = Idle
  /\ UNCHANGED <<sessions, packages>>

NextDeviceInfo == UpdateDeviceInfo \/ UpdateReturned

SpecDeviceInfo == InitDeviceInfo /\ [][NextDeviceInfo]_vars

----------------------------------------------------------------------------
(* The update check on its own: check_update_available called on a catalog *)

\* the largest number of packages in a catalog of the update check
MaxCatalog == 2

\* an UpdatePackage of a manifest
Package(name, version, min_version, target_build) ==
  [name |-> name, version |-> version, filename |-> name \o ".ipk", size |-> 1,
   description |-> "Update package: " \o name, min_version |-> min_version,
   target_build |-> target_build, install_notify_url |-> ""]

\* packages with and without min_version and target_build; their names differ, as
\* the keys of UpdateManager.packages do
PackagePool ==
  { Package("to-305", "3.0.5", "", "3.0.5"),
    Package("to-306", "3.0.6", "", "3.0.6"),
    Package("any-306", "3.0.6", "", ""),
    Package("from-305", "1.0.0", "3.0.5", ""),
    Package("from-305-to-306", "3.0.6", "3.0.5", "3.0.6"),
    Package("to-12345", "1.0.0", "", "1.2.3.4.5") }

\* UpdateManager.packages after load_manifests, in insertion order
CatalogPool ==
  UNION { { ps \in [1..n -> PackagePool] : \A i, j \in 1..n : ps[i] = ps[j] => i = j }
          : n \in 0..MaxCatalog }

\* the device builds the update check is asked about
DeviceBuilds ==
  {"", "abc", "200", "3.0.4", "3.0.5", "3.0.6", "Nova-3.0.5-64", "1.2.3.4.5", "1.2.3.4.9"}

InitCatalog ==
  /\ sessions = [sid \in SessionIds |-> NoSession]
  /\ packages \in CatalogPool
  /\ http = Idle

\* a call of check_update_available(device_build); the exchange keeps the parsed
\* version and the candidates of the call next to what it returns
CheckUpdate ==
  /\ http.phase = "idle"
  /\ \E device_build \in DeviceBuilds :
       http' = [phase |-> "checked",
                device_build |-> device_build,
                device_version |-> Version(device_build),
                candidates |-> Candidates(packages, Version(device_build)),
                result |-> check_update_available(packages, device_build)]
  /\ UNCHANGED <<sessions, packages>>

\* the caller of check_update_available has used what it returned
CheckReturned ==
  /\ http.phase = "checked"
  /\ http' = Idle
  /\ UNCHANGED <<sessions, packages>>

NextCatalog == CheckUpdate \/ CheckReturned

SpecCatalog == InitCatalog /\ [][NextCatalog]_vars

----------------------------------------------------------------------------
(* dm/update.py: the rescan of the packages directory.  UpdateManager.packages *)
(* is a dict keyed by name: the sequence of its values, in insertion order.    *)

\* the most files a listing of the packages directory has
MaxFiles == 2

\* a file of the packages directory: its name, Path.stem and suffix, its size, the
\* MD5 of its content, and whether it can be opened and read
File(stem, suffix, size, md5, readable) ==
  [filename |-> stem \o suffix, stem |-> stem, suffix |-> suffix, size |-> size,
   md5 |-> md5, readable |-> readable]

FilePool ==
  { File("foo", ".ipk", 1, "md5-1", TRUE), File("foo", ".dipk", 2, "md5-2", TRUE),
    File("bar", ".ipk", 3, "md5-3", TRUE), File("bad", ".ipk", 0, "", FALSE),
    File("notes", ".txt", 1, "md5-1", TRUE) }

\* packages_dir does not exist
NoDirectory == <<[filename |-> None]>>

\* what iterating the packages directory yields: nothing where it does not exist,
\* else its files in the order of the file system
Directories ==
  {NoDirectory} \cup
  UNION { { fs \in [1..n -> FilePool] : \A i, j \in 1..n : fs[i] = fs[j] => i = j }
          : n \in 0..MaxFiles }

\* UpdatePackage.to_dict
to_dict(pkg) ==
  [name |-> pkg.name, version |-> pkg.version, filename |-> pkg.filename,
   size |-> pkg.size, md5 |-> pkg.md5, description |-> pkg.description,
   min_version |-> pkg.min_version, target_build |-> pkg.target_build]

\* _save_manifest: the packages list of the manifest it writes
_save_manifest(pkgs) == [i \in 1..Len(pkgs) |-> to_dict(pkgs[i])]

\* _create_package_entry: <<the entry>>, or << >> for the None an exception gives
_create_package_entry(file) ==
  IF file.readable
  THEN <<[name |-> file.stem, version |-> "1.0.0", filename |-> file.filename,
          size |-> file.size, md5 |-> file.md5,
          description |-> "Update package: " \o file.stem, min_version |-> "",
          target_build |-> "", install_notify_url |-> ""]>>
  ELSE << >>

\* self.packages[pkg.name] = pkg: a key the dict has keeps its place
SetPackage(pkgs, pkg) ==
  IF \E i \in 1..Len(pkgs) : pkgs[i].name = pkg.name
  THEN [i \in 1..Len(pkgs) |-> IF pkgs[i].name = pkg.name THEN pkg ELSE pkgs[i]]
  ELSE Append(pkgs, pkg)

\* the body of the loops of scan_packages, for one file of the glob
ScanFile(pkgs, file) ==
  IF \A i \in 1..Len(pkgs) : pkgs[i].filename # file.filename
  THEN (IF _create_package_entry(file) # << >>
        THEN SetPackage(pkgs, _create_package_entry(file)[1])
        ELSE pkgs)
  ELSE pkgs

\* one loop of scan_packages: over the files packages_dir.glob("*" + suffix) yields
RECURSIVE ScanGlob(_, _, _)
ScanGlob(pkgs, files, suffix) ==
  IF files = << >> THEN pkgs
  ELSE ScanGlob(IF files[1].suffix = suffix THEN ScanFile(pkgs, files[1]) ELSE pkgs,
                Tail(files), suffix)

\* scan_packages: self.packages after the call
scan_packages(pkgs, directory) ==
  IF directory = NoDirectory THEN pkgs
  ELSE ScanGlob(ScanGlob(pkgs, directory, ".ipk"), directory, ".dipk")

\* UpdateManager() where packages_dir has no manifest.json
InitScan ==
  /\ sessions = [sid \in SessionIds |-> NoSession]
  /\ packages = << >>
  /\ http = Idle

\* POST /packages/scan, or the scan of the startup: the exchange keeps the catalog
\* the scan met, what the directory held, and the manifest the scan wrote (none
\* where the directory did not exist)
ScanPackages ==
  /\ http.phase = "idle"
  /\ \E directory \in Directories :
       /\ packages' = scan_packages(packages, directory)
       /\ http' = [phase |-> "scanned", before |-> packages, directory |-> directory,
                   manifest |-> IF directory = NoDirectory THEN << >>
                                ELSE <<_save_manifest(packages')>>]
  /\ UNCHANGED sessions

\* the scan returns
ScanReturned ==
  /\ http.phase = "scanned"
  /\ http' = Idle
  /\ UNCHANGED <<sessions, packages>>

NextScan == ScanPackages \/ ScanReturned

SpecScan == InitScan /\ [][NextScan]_vars

----------------------------------------------------------------------------
(* wbxml/tokens.py: the global tokens and the code pages.  A bytes value of *)
(* the codec is a sequence of integers 0..255, at the Python index i the    *)
(* element i + 1.                                                           *)

SWITCH_PAGE == 0
END == 1
STR_I == 3
LITERAL == 4
STR_T == 131
OPAQUE == 195
TAG_HAS_CONTENT == 64
TAG_HAS_ATTRS == 128
SYNCML_1_2_PUBLIC_ID == 4609

\* the names of code page 0, from the code 0x05 on
SYNCML_TAGS ==
  [code \in 5..60 |->
     <<"Add", "Alert", "Archive", "Atomic", "Chal", "Cmd", "CmdID", "CmdRef", "Copy",
       "Cred", "Data", "Delete", "Exec", "Final", "Get", "Item", "Lang", "LocName",
       "LocURI", "Map", "MapItem", "Meta", "MsgID", "MsgRef", "NoResp", "NoResults",
       "Put", "Replace", "RespURI", "Results", "Search", "Sequence", "SessionID",
       "SftDel", "Source", "SourceRef", "Status", "Sync", "SyncBody", "SyncHdr",
       "SyncML", "Target", "TargetRef", "Reserved", "VerDTD", "VerProto",
       "NumberOfChanges", "MoreData", "Field", "Filter", "Record", "FilterType",
       "SourceParent", "TargetParent", "Move", "Correlator">>[code - 4]]

\* the names of code page 1, from the code 0x05 on
METINF_TAGS ==
  [code \in 5..22 |->
     <<"Anchor", "EMI", "Format", "FreeID", "FreeMem", "Last", "Mark", "MaxMsgSize",
       "Mem", "MetInf", "Next", "NextNonce", "SharedMem", "Size", "Type", "Version",
       "MaxObjSize", "FieldLevel">>[code - 4]]

\* CODE_PAGES.get(page, SYNCML_TAGS), and CODE_PAGES_REV.get(page, SYNCML_TAGS_REV)
\* read through it
CODE_PAGES(page) == IF page = 1 THEN METINF_TAGS ELSE SYNCML_TAGS

----------------------------------------------------------------------------
(* Python str and bytes in the codec *)

\* the printable ASCII characters, from the code 32 on; the empty string stands
\* for the grave accent (code 96), which no string of the model holds
Ascii ==
  <<" ", "!", "\"", "#", "$", "%", "&", "'", "(", ")", "*", "+", ",", "-", ".", "/",
    "0", "1", "2", "3", "4", "5", "6", "7", "8", "9", ":", ";", "<", "=", ">", "?",
    "@", "A", "B", "C", "D", "E", "F", "G", "H", "I", "J", "K", "L", "M", "N", "O",
    "P", "Q", "R", "S", "T", "U", "V", "W", "X", "Y", "Z", "[", "\\", "]", "^", "_",
    "", "a", "b", "c", "d", "e", "f", "g", "h", "i", "j", "k", "l", "m", "n", "o",
    "p", "q", "r", "s", "t", "u", "v", "w", "x", "y", "z", "{", "|", "}", "~">>

Ord(c) == 31 + (CHOOSE i \in 1..95 : Ascii[i] = c)
Chr(b) == Ascii[b - 31]

\* the code points of the tag names and of the texts of the messages on the wire
CodePoints(s) ==
  CASE s = "SyncML" -> <<83, 121, 110, 99, 77, 76>>
    [] s = "SyncHdr" -> <<83, 121, 110, 99, 72, 100, 114>>
    [] s = "VerDTD" -> <<86, 101, 114, 68, 84, 68>>
    [] s = "VerProto" -> <<86, 101, 114, 80, 114, 111, 116, 111>>
    [] s = "SessionID" -> <<83, 101, 115, 115, 105, 111, 110, 73, 68>>
    [] s = "MsgID" -> <<77, 115, 103, 73, 68>>
    [] s = "Target" -> <<84, 97, 114, 103, 101, 116>>
    [] s = "LocURI" -> <<76, 111, 99, 85, 82, 73>>
    [] s = "Source" -> <<83, 111, 117, 114, 99, 101>>
    [] s = "SyncBody" -> <<83, 121, 110, 99, 66, 111, 100, 121>>
    [] s = "Status" -> <<83, 116, 97, 116, 117, 115>>
    [] s = "CmdID" -> <<67, 109, 100, 73, 68>>
    [] s = "MsgRef" -> <<77, 115, 103, 82, 101, 102>>
    [] s = "CmdRef" -> <<67, 109, 100, 82, 101, 102>>
    [] s = "Cmd" -> <<67, 109, 100>>
    [] s = "Data" -> <<68, 97, 116, 97>>
    [] s = "TargetRef" -> <<84, 97, 114, 103, 101, 116, 82, 101, 102>>
    [] s = "SourceRef" -> <<83, 111, 117, 114, 99, 101, 82, 101, 102>>
    [] s = "Item" -> <<73, 116, 101, 109>>
    [] s = "Get" -> <<71, 101, 116>>
    [] s = "Replace" -> <<82, 101, 112, 108, 97, 99, 101>>
    [] s = "Exec" -> <<69, 120, 101, 99>>
    [] s = "Results" -> <<82, 101, 115, 117, 108, 116, 115>>
    [] s = "Alert" -> <<65, 108, 101, 114, 116>>
    [] s = "Meta" -> <<77, 101, 116, 97>>
    [] s = "Format" -> <<70, 111, 114, 109, 97, 116>>
    [] s = "Type" -> <<84, 121, 112, 101>>
    [] s = "NextNonce" -> <<78, 101, 120, 116, 78, 111, 110, 99, 101>>
    [] s = "Final" -> <<70, 105, 110, 97, 108>>
    [] s = "Cred" -> <<67, 114, 101, 100>>
    [] s = "NoResp" -> <<78, 111, 82, 101, 115, 112>>
    [] s = "xmlns" -> <<120, 109, 108, 110, 115>>
    [] s = "SYNCML:SYNCML1.2" ->
         <<83, 89, 78, 67, 77, 76, 58, 83, 89, 78, 67, 77, 76, 49, 46, 50>>
    [] s = "1.2" -> <<49, 46, 50>>
    [] s = "DM/1.2" -> <<68, 77, 47, 49, 46, 50>>
    [] s = "42" -> <<52, 50>>
    [] s = "43" -> <<52, 51>>
    [] s = "0" -> <<48>>
    [] s = "212" -> <<50, 49, 50>>
    [] s = "401" -> <<52, 48, 49>>
    [] s = "DEV-A" -> <<68, 69, 86, 45, 65>>
    [] s = "DEV-B" -> <<68, 69, 86, 45, 66>>
    [] s = "webos-update-server" ->
         <<119, 101, 98, 111, 115, 45, 117, 112, 100, 97, 116, 101, 45, 115, 101, 114,
           118, 101, 114>>
    [] s = "./DevInfo/DevId" ->
         <<46, 47, 68, 101, 118, 73, 110, 102, 111, 47, 68, 101, 118, 73, 100>>
    [] s = "./DevInfo/Man" -> <<46, 47, 68, 101, 118, 73, 110, 102, 111, 47, 77, 97, 110>>
    [] s = "./DevInfo/FwV" -> <<46, 47, 68, 101, 118, 73, 110, 102, 111, 47, 70, 119, 86>>
    [] s = "./DevInfo/HwV" -> <<46, 47, 68, 101, 118, 73, 110, 102, 111, 47, 72, 119, 86>>
    [] s = "abcd" -> <<97, 98, 99, 100>>
    [] s = "a&b<c>" -> <<97, 38, 98, 60, 99, 62>>
    [] s = "chr" -> <<99, 104, 114>>
    [] s = "text/plain" -> <<116, 101, 120, 116, 47, 112, 108, 97, 105, 110>>
    [] s = "wbxml" -> <<119, 98, 120, 109, 108>>
    [] s = "application/vnd.syncml.dm+xml" ->
         <<97, 112, 112, 108, 105, 99, 97, 116, 105, 111, 110, 47, 118, 110, 100, 46, 115, 121, 110, 99, 109, 108, 46, 100, 109, 43, 120, 109, 108>>
    [] s = "application/vnd.syncml.dm+wbxml" ->
         <<97, 112, 112, 108, 105, 99, 97, 116, 105, 111, 110, 47, 118, 110, 100, 46, 115, 121, 110, 99, 109, 108, 46, 100, 109, 43, 119, 98, 120, 109, 108>>
    [] s = "application/vnd.syncml.dm+wbxml; charset=utf-8" ->
         <<97, 112, 112, 108, 105, 99, 97, 116, 105, 111, 110, 47, 118, 110, 100, 46, 115, 121, 110, 99, 109, 108, 46, 100, 109, 43, 119, 98, 120, 109, 108, 59, 32, 99, 104, 97, 114, 115, 101, 116, 61, 117, 116, 102, 45, 56>>

\* a str of the codec is the sequence of its code points
Codes(s) ==
  IF s \in KnownStrings THEN [i \in 1..Len(Chars(s)) |-> Ord(Chars(s)[i])]
  ELSE CodePoints(s)

\* the string of code points
RECURSIVE StringOf(_)
StringOf(codes) == IF codes = << >> THEN "" ELSE Chr(codes[1]) \o StringOf(Tail(codes))

\* elem.text of an element without text: None
NoText == <<-1>>

\* the truth value of elem.text
HasText(text) == text # NoText /\ text # << >>

\* str.encode('utf-8'): a code point below 128 is one byte of its value.  The
\* strings of the model are ASCII
encode_utf8(codes) == [i \in 1..Len(codes) |-> codes[i] % 128]

\* whether bytes.decode('utf-8') returns.  The bytes of the documents of the model
\* are ASCII, or 0xFE and 0xFF, which no UTF-8 text contains
decodes_utf8(bytes) == \A i \in 1..Len(bytes) : bytes[i] < 128

\* bytes.decode('utf-8') of ASCII bytes: the code points are the bytes
decode_utf8(bytes) == [i \in 1..Len(bytes) |-> bytes[i] % 128]

\* data[a:b], with Python's clipping of the bounds
Slice(data, a, b) ==
  SubSeq(data, a + 1, IF b > Len(data) THEN Len(data) ELSE b)

\* f"{n:02X}"
HexDigits == <<"0","1","2","3","4","5","6","7","8","9","A","B","C","D","E","F">>
Hex02(n) == HexDigits[(n \div 16) + 1] \o HexDigits[(n % 16) + 1]

----------------------------------------------------------------------------
(* wbxml/codec.py: WBXMLEncoder.  An ET.Element is a record of its tag, its  *)
(* text (NoText for None) and its children; the elements of the model have no *)
(* tail, and the encoder never reads their attributes.                      *)

Element(tag, text, children) == [tag |-> tag, text |-> text, children |-> children]

\* write_mb_uint32 with the least significant seven bits first
RECURSIVE write_mb_uint32_low_first(_)
write_mb_uint32_low_first(value) ==
  IF value < 128 THEN <<value>>
  ELSE <<(value % 128) + 128>> \o write_mb_uint32_low_first(value \div 128)

\* the bytes of lines 198-206 for a value above 0: seven bits a byte, the most
\* significant first, 0x80 set on all but the last
RECURSIVE SevenBitGroups(_)
SevenBitGroups(value) ==
  IF value = 0 THEN << >> ELSE SevenBitGroups(value \div 128) \o <<value % 128>>

\* WBXMLEncoder.write_mb_uint32 (and write_mb_uint32_to): the bytes it writes
write_mb_uint32(value) ==
  IF value = 0 THEN <<0>>
  ELSE [i \in 1..Len(SevenBitGroups(value)) |->
          IF i < Len(SevenBitGroups(value)) THEN SevenBitGroups(value)[i] + 128
          ELSE SevenBitGroups(value)[i]]

\* WBXMLEncoder.get_tag_token: <<the token>>, << >> for None
get_tag_token(tag_name, page) ==
  IF \E code \in DOMAIN CODE_PAGES(page) : CODE_PAGES(page)[code] = tag_name
  THEN <<CHOOSE code \in DOMAIN CODE_PAGES(page) : CODE_PAGES(page)[code] = tag_name>>
  ELSE << >>

\* the test of build_string_table and encode_element: the tag has no token
IsLiteral(tag_name) == get_tag_token(tag_name, 0) = << >> /\ get_tag_token(tag_name, 1) = << >>

\* WBXMLEncoder.build_string_table: the keys of string_table_index in the order
\* add_to_string_table met them; names are those met before elem.  The table a
\* child leaves is computed before the next child is visited
RECURSIVE build_string_table(_, _)
RECURSIVE build_string_table_children(_, _, _)
build_string_table(elem, names) ==
  build_string_table_children(
    elem.children, 1,
    IF IsLiteral(elem.tag) /\ ~(\E k \in 1..Len(names) : names[k] = elem.tag)
    THEN Append(names, elem.tag) ELSE names)

build_string_table_children(children, i, names) ==
  IF i > Len(children) THEN names
  ELSE CHOOSE result \in {build_string_table_children(children, i + 1, met) :
                            met \in {build_string_table(children[i], names)}} : TRUE

\* WBXMLEncoder.string_table after build_string_table
RECURSIVE StringTable(_)
StringTable(names) ==
  IF names = << >> THEN << >>
  ELSE encode_utf8(Codes(names[1])) \o <<0>> \o StringTable(Tail(names))

\* string_table_index.get(tag_name, 0)
StringTableOffset(names, tag_name) ==
  IF \E k \in 1..Len(names) : names[k] = tag_name
  THEN Len(StringTable(SubSeq(names, 1, (CHOOSE k \in 1..Len(names) : names[k] = tag_name) - 1)))
  ELSE 0

\* switch_page that records the page without writing the switch
switch_page_unwritten(enc, page) == [enc EXCEPT !.current_page = page]

\* WBXMLEncoder.switch_page; enc is the encoder's output and current_page
switch_page(enc, page) ==
  IF page # enc.current_page
  THEN [output |-> enc.output \o <<SWITCH_PAGE, page>>, current_page |-> page]
  ELSE enc

\* self.output.write(...) of the encoder
Write(enc, bytes) == [enc EXCEPT !.output = @ \o bytes]

\* WBXMLEncoder.write_string
write_string(enc, s) == Write(enc, <<STR_I>> \o encode_utf8(s) \o <<0>>)

\* lines 319-331: the tag token with its content flag
TagToken(token, has_content) == IF has_content THEN token + TAG_HAS_CONTENT ELSE token

\* lines 309-331 of encode_element: the page switch and the tag token
EncodeTag(enc, elem, names, has_content) ==
  IF get_tag_token(elem.tag, 0) # << >>
  THEN Write(switch_page(enc, 0), <<TagToken(get_tag_token(elem.tag, 0)[1], has_content)>>)
  ELSE IF get_tag_token(elem.tag, 1) # << >>
  THEN Write(switch_page(enc, 1), <<TagToken(get_tag_token(elem.tag, 1)[1], has_content)>>)
  ELSE Write(switch_page(enc, 0),
             <<TagToken(LITERAL, has_content)>>
               \o write_mb_uint32(StringTableOffset(names, elem.tag)))

\* lines 335-336
EncodeText(enc, elem) == IF HasText(elem.text) THEN write_string(enc, elem.text) ELSE enc

\* WBXMLEncoder.encode_element
RECURSIVE encode_element(_, _, _)
RECURSIVE encode_children(_, _, _, _)
encode_element(enc, elem, names) ==
  IF HasText(elem.text) \/ Len(elem.children) > 0
  THEN Write(encode_children(EncodeText(EncodeTag(enc, elem, names, TRUE), elem),
                             elem.children, 1, names),
             <<END>>)
  ELSE EncodeTag(enc, elem, names, FALSE)

encode_children(enc, children, i, names) ==
  IF i > Len(children) THEN enc
  ELSE CHOOSE result \in {encode_children(written, children, i + 1, names) :
                            written \in {encode_element(enc, children[i], names)}} : TRUE

\* lines 254-276 of encode: the header, the string table and the body
Document(names, body) ==
  <<3>> \o write_mb_uint32(SYNCML_1_2_PUBLIC_ID) \o write_mb_uint32(106)
        \o write_mb_uint32(Len(StringTable(names))) \o StringTable(names) \o body

\* WBXMLEncoder.encode
encode(root) ==
  Document(build_string_table(root, << >>),
           encode_element([output |-> << >>, current_page |-> 0], root,
                          build_string_table(root, << >>)).output)

----------------------------------------------------------------------------
(* wbxml/codec.py: WBXMLDecoder.  pos is self.pos and page self.current_page; *)
(* a method gives a record whose field raised is "" when it returns and the  *)
(* name of the exception when it raises.                                     *)

Raised(exception) == [raised |-> exception]

\* WBXMLDecoder.read_byte
read_byte(data, pos) ==
  IF pos >= Len(data) THEN Raised("ValueError")
  ELSE [raised |-> "", value |-> data[pos + 1], pos |-> pos + 1]

\* WBXMLDecoder.read_mb_uint32, from result on
RECURSIVE read_mb_uint32(_, _, _)
read_mb_uint32(data, pos, result) ==
  IF pos >= Len(data) THEN Raised("ValueError")
  ELSE IF data[pos + 1] >= 128
       THEN read_mb_uint32(data, pos + 1, result * 128 + (data[pos + 1] % 128))
       ELSE [raised |-> "", value |-> result * 128 + data[pos + 1], pos |-> pos + 1]

\* bytes.find(b'\x00', start): the index of the first zero byte from start on, -1
\* when there is none
Find0(data, start) ==
  IF \E i \in start..(Len(data) - 1) : data[i + 1] = 0
  THEN CHOOSE i \in start..(Len(data) - 1) :
         data[i + 1] = 0 /\ \A j \in start..(i - 1) : data[j + 1] # 0
  ELSE -1

\* bytes.decode('utf-8') as a method result
Decoded(bytes, pos) ==
  IF decodes_utf8(bytes) THEN [raised |-> "", value |-> decode_utf8(bytes), pos |-> pos]
  ELSE Raised("UnicodeDecodeError")

\* WBXMLDecoder.read_string: data[self.pos] raises IndexError past the end
read_string(data, pos) ==
  IF Find0(data, pos) = -1 THEN Raised("IndexError")
  ELSE Decoded(Slice(data, pos, Find0(data, pos)), Find0(data, pos) + 1)

\* WBXMLDecoder.read_opaque, after the length was read
read_opaque(data, length) ==
  IF length.raised # "" THEN length
  ELSE [raised |-> "", value |-> Slice(data, length.pos, length.pos + length.value),
        pos |-> length.pos + length.value]

\* WBXMLDecoder.get_string_from_table
get_string_from_table(string_table, offset, pos) ==
  Decoded(Slice(string_table, offset,
                IF Find0(string_table, offset) = -1 THEN Len(string_table)
                ELSE Find0(string_table, offset)),
          pos)

\* get_string_from_table(self.read_mb_uint32())
StringAt(string_table, offset) ==
  IF offset.raised # "" THEN offset
  ELSE get_string_from_table(string_table, offset.value, offset.pos)

\* WBXMLDecoder.get_tag_name
get_tag_name(token, page) ==
  [raised |-> "",
   value |-> IF (token % 64) \in DOMAIN CODE_PAGES(page) THEN CODE_PAGES(page)[token % 64]
             ELSE "Unknown_0x" \o Hex02(token % 64)]

\* the Base64 alphabet
B64Alphabet ==
  <<"A","B","C","D","E","F","G","H","I","J","K","L","M","N","O","P","Q","R","S","T",
    "U","V","W","X","Y","Z","a","b","c","d","e","f","g","h","i","j","k","l","m","n",
    "o","p","q","r","s","t","u","v","w","x","y","z","0","1","2","3","4","5","6","7",
    "8","9","+","/">>

\* the code point of the Base64 digit of a value
B64(value) == Ord(B64Alphabet[value + 1])

\* base64.b64encode(data).decode('ascii')
RECURSIVE b64encode(_)
b64encode(bytes) ==
  IF Len(bytes) = 0 THEN << >>
  ELSE IF Len(bytes) = 1
  THEN <<B64(bytes[1] \div 4), B64((bytes[1] % 4) * 16), Ord("="), Ord("=")>>
  ELSE IF Len(bytes) = 2
  THEN <<B64(bytes[1] \div 4), B64(((bytes[1] % 4) * 16) + (bytes[2] \div 16)),
         B64((bytes[2] % 16) * 4), Ord("=")>>
  ELSE <<B64(bytes[1] \div 4), B64(((bytes[1] % 4) * 16) + (bytes[2] \div 16)),
         B64(((bytes[2] % 16) * 4) + (bytes[3] \div 64)), B64(bytes[3] % 64)>>
       \o b64encode(SubSeq(bytes, 4, Len(bytes)))

\* lines 160-167 of parse_content: the text an OPAQUE gives
OpaqueText(opaque) ==
  IF opaque.raised # "" THEN opaque
  ELSE [raised |-> "",
        value |-> IF decodes_utf8(opaque.value) THEN decode_utf8(opaque.value)
                  ELSE b64encode(opaque.value),
        pos |-> opaque.pos]

\* WBXMLDecoder.parse_attributes
RECURSIVE parse_attributes(_, _)
parse_attributes(data, pos) ==
  IF pos >= Len(data) THEN Raised("ValueError")
  ELSE IF data[pos + 1] = END THEN [raised |-> "", pos |-> pos + 1]
  ELSE parse_attributes(data, pos + 1)

\* the token read with the end of the data taken for an END token
RECURSIVE ReadToken_end_of_data_is_END(_, _, _)
ReadToken_end_of_data_is_END(data, pos, page) ==
  IF pos >= Len(data) THEN [raised |-> "", token |-> END, pos |-> pos, page |-> page]
  ELSE IF data[pos + 1] # SWITCH_PAGE
  THEN [raised |-> "", token |-> data[pos + 1], pos |-> pos + 1, page |-> page]
  ELSE IF pos + 1 >= Len(data) THEN Raised("ValueError")
  ELSE ReadToken_end_of_data_is_END(data, pos + 2, data[pos + 2])

\* lines 100-105 of parse_element: the token after the page switches
RECURSIVE ReadToken(_, _, _)
ReadToken(data, pos, page) ==
  IF pos >= Len(data) THEN Raised("ValueError")
  ELSE IF data[pos + 1] # SWITCH_PAGE
  THEN [raised |-> "", token |-> data[pos + 1], pos |-> pos + 1, page |-> page]
  ELSE IF pos + 1 >= Len(data) THEN Raised("ValueError")
  ELSE ReadToken(data, pos + 2, data[pos + 2])

\* a value a method returned, with the position the decoder stands at
At(result, pos) ==
  IF result.raised # "" THEN result
  ELSE [raised |-> "", value |-> result.value, pos |-> pos]

\* the tag name a string of the string table spells
Named(string) ==
  IF string.raised # "" THEN string
  ELSE [raised |-> "", value |-> StringOf(string.value), pos |-> string.pos]

\* lines 114-118 of parse_element: the tag name, of the string table for a LITERAL
TagName(data, string_table, read) ==
  IF read.token % 64 = LITERAL
  THEN Named(StringAt(string_table, read_mb_uint32(data, read.pos, 0)))
  ELSE At(get_tag_name(read.token, read.page), read.pos)

\* lines 123-124 of parse_element
Attributes(data, read, name) ==
  IF name.raised # "" THEN name
  ELSE IF (read.token \div TAG_HAS_ATTRS) % 2 = 1 THEN parse_attributes(data, name.pos)
  ELSE [raised |-> "", pos |-> name.pos]

\* what parse_element returns: <<the element>>, or << >> for None
Parsed_element(elem, pos, page) ==
  [raised |-> "", elem |-> elem, pos |-> pos, page |-> page]

\* lines 175-176 of parse_content, and line 130 of parse_element
Closed(tag, content) ==
  IF content.raised # "" THEN content
  ELSE Parsed_element(<<Element(tag, content.text, content.children)>>,
                      content.pos, content.page)

\* the content of parse_content as it stands: text_parts (has_text tells that it
\* is not empty, text is its join) and the children appended to elem
Content(has_text, text, children) ==
  [has_text |-> has_text, text |-> text, children |-> children]

AddText(content, part) == [content EXCEPT !.has_text = TRUE, !.text = @ \o part.value]
AddChild(content, child) == [content EXCEPT !.children = @ \o child.elem]

\* WBXMLDecoder.parse_element and parse_content
RECURSIVE parse_element(_, _, _, _)
RECURSIVE parse_content(_, _, _, _, _)
RECURSIVE ParseTagged(_, _, _)
RECURSIVE ParseContent(_, _, _, _, _)
RECURSIVE ContentAfterText(_, _, _, _, _)
RECURSIVE ContentAfterChild(_, _, _, _)

parse_element(data, string_table, pos, page) ==
  ParseTagged(data, string_table, ReadToken(data, pos, page))

\* lines 107-130 of parse_element
ParseTagged(data, string_table, read) ==
  IF read.raised # "" THEN read
  ELSE IF read.token = END THEN Parsed_element(<< >>, read.pos, read.page)
  ELSE ParseContent(data, string_table, read, TagName(data, string_table, read),
                    Attributes(data, read, TagName(data, string_table, read)))

\* lines 120-130 of parse_element
ParseContent(data, string_table, read, name, attributes) ==
  IF attributes.raised # "" THEN attributes
  ELSE IF (read.token \div TAG_HAS_CONTENT) % 2 = 1
  THEN Closed(name.value,
              parse_content(data, string_table, attributes.pos, read.page,
                            Content(FALSE, << >>, << >>)))
  ELSE Parsed_element(<<Element(name.value, NoText, << >>)>>, attributes.pos, read.page)

\* the loop of parse_content after a text part was read
ContentAfterText(data, string_table, page, content, part) ==
  IF part.raised # "" THEN part
  ELSE parse_content(data, string_table, part.pos, page, AddText(content, part))

\* the loop of parse_content after a child element was parsed
ContentAfterChild(data, string_table, content, child) ==
  IF child.raised # "" THEN child
  ELSE parse_content(data, string_table, child.pos, child.page, AddChild(content, child))

parse_content(data, string_table, pos, page, content) ==
  CASE pos >= Len(data) -> Raised("ValueError")
    [] pos < Len(data) /\ data[pos + 1] = END ->
         [raised |-> "", text |-> IF content.has_text THEN content.text ELSE NoText,
          children |-> content.children, pos |-> pos + 1, page |-> page]
    [] pos < Len(data) /\ data[pos + 1] = SWITCH_PAGE /\ pos + 1 >= Len(data) ->
         Raised("ValueError")
    [] pos + 1 < Len(data) /\ data[pos + 1] = SWITCH_PAGE ->
         parse_content(data, string_table, pos + 2, data[pos + 2], content)
    [] pos < Len(data) /\ data[pos + 1] = STR_I ->
         ContentAfterText(data, string_table, page, content, read_string(data, pos + 1))
    [] pos < Len(data) /\ data[pos + 1] = STR_T ->
         ContentAfterText(data, string_table, page, content,
                          StringAt(string_table, read_mb_uint32(data, pos + 1, 0)))
    [] pos < Len(data) /\ data[pos + 1] = OPAQUE ->
         ContentAfterText(data, string_table, page, content,
                          OpaqueText(read_opaque(data, read_mb_uint32(data, pos + 1, 0))))
    [] OTHER ->
         ContentAfterChild(data, string_table, content,
                           parse_element(data, string_table, pos, page))

\* the header read with a string table index behind every public id
SkipPublicIdIndex_always(data, public_id) ==
  IF public_id.raised # "" THEN public_id
  ELSE read_mb_uint32(data, public_id.pos, 0)

\* lines 79-92 of decode: the header; gives the position of the body and the
\* string table
SkipPublicIdIndex(data, public_id) ==
  IF public_id.raised # "" THEN public_id
  ELSE IF public_id.value = 0 THEN read_mb_uint32(data, public_id.pos, 0)
  ELSE public_id

Charset(data, public_id) ==
  IF public_id.raised # "" THEN public_id ELSE read_mb_uint32(data, public_id.pos, 0)

StringTableLength(data, charset) ==
  IF charset.raised # "" THEN charset ELSE read_mb_uint32(data, charset.pos, 0)

Header(data, version) ==
  IF version.raised # "" THEN version
  ELSE StringTableLength(
         data, Charset(data, SkipPublicIdIndex(data, read_mb_uint32(data, version.pos, 0))))

\* lines 94-96 of decode
Body(data, str_table_len) ==
  IF str_table_len.raised # "" THEN str_table_len
  ELSE parse_element(data,
                     Slice(data, str_table_len.pos, str_table_len.pos + str_table_len.value),
                     str_table_len.pos + str_table_len.value, 0)

\* WBXMLDecoder.decode, and decode_wbxml
decode(data) == Body(data, Header(data, read_byte(data, 0)))


----------------------------------------------------------------------------
(* The codec driven by its callers: encode_wbxml and decode_wbxml on trees   *)
(* and on byte strings.  http holds the call in flight and what it returned. *)

\* the most children an element of a generated tree has
MaxChildren == 2

\* tags of code page 0, of code page 1 and without a token
TagPool == {"SyncML", "Meta", "NextNonce", "Foo", "Bar"}

\* no text, or a non-empty text
TextPool == {NoText, Codes("1")}

Leaves == {Element(tag, text, << >>) : tag \in TagPool, text \in TextPool}

Branches ==
  {Element(tag, text, children) :
     tag \in TagPool, text \in TextPool,
     children \in UNION {[1..n -> Leaves] : n \in 1..MaxChildren}}

\* trees of depth three: an element of each kind below a branch
Deep ==
  {Element("SyncML", NoText, <<Element(tag, NoText, <<leaf>>)>>) :
     tag \in {"Meta", "Format", "Foo"}, leaf \in Leaves}

TreePool == Leaves \union Branches \union Deep

\* encode_wbxml(root) followed by decode_wbxml on its bytes; encoder_page is the
\* encoder's current_page when encode returns
EncodeDecode ==
  /\ http.phase = "idle"
  /\ \E root \in TreePool :
       http' = [phase |-> "round trip",
                root |-> root,
                data |-> encode(root),
                encoder_page |->
                  encode_element([output |-> << >>, current_page |-> 0], root,
                                 build_string_table(root, << >>)).current_page,
                result |-> decode(encode(root))]
  /\ UNCHANGED <<sessions, packages>>

\* values of one to four bytes, with the ends of each length
MbValues ==
  (0..130) \union {16383, 16384, 2097151, 2097152, 268435455}

\* what follows the value in the data
Trailing == {<< >>, <<0>>, <<255>>, <<45, 1>>}

\* write_mb_uint32(value) followed by read_mb_uint32 on the bytes written and
\* what follows them
MbUint32 ==
  /\ http.phase = "idle"
  /\ \E value \in MbValues, rest \in Trailing :
       http' = [phase |-> "mb_uint32",
                value |-> value,
                written |-> write_mb_uint32(value),
                rest |-> rest,
                read |-> read_mb_uint32(write_mb_uint32(value) \o rest, 0, 0)]
  /\ UNCHANGED <<sessions, packages>>

\* documents written by hand: version, public id, charset, string table, body
Documents ==
  { <<3, 1, 106, 0, 0, 45, 0, 1>>,                 \* 03 01 6A 00 00 2D 00 01
    <<3, 164, 1, 106, 0, 45>>,                     \* <SyncML/> as the encoder writes it
    <<3, 1, 106, 0, 45>>,                          \* <SyncML/>, public id 1
    <<3, 0, 0, 106, 0, 45>>,                       \* <SyncML/>, public id in the string table
    <<3, 1, 106, 0, 63>>,                          \* the token 0x3F, no tag of page 0
    <<3, 1, 106, 0, 0, 1, 23>>,                    \* the token 0x17, no tag of page 1
    <<3, 1, 106, 0, 109, 63, 1>>,                  \* 0x3F inside SyncML
    <<3, 1, 106, 0, 109, 127, 3, 49, 0, 1, 1>>,    \* 0x3F with content inside SyncML
    <<3, 1, 106, 0, 0, 5, 45>>,                    \* the token 0x2D in page 5
    <<3, 1, 106, 4, 70, 111, 111, 0, 4, 0>>,       \* the literal tag Foo
    <<3, 1, 106, 2, 49, 0, 109, 131, 0, 1>>,       \* SyncML with a text of the string table
    <<3, 1, 106, 0, 109, 195, 2, 254, 255, 1>>,    \* SyncML with an opaque that is not UTF-8
    <<3, 1, 106, 0, 109, 195, 1, 49, 1>>,          \* SyncML with an opaque that is UTF-8
    <<3, 1, 106, 0, 237, 5, 6, 1, 3, 49, 0, 1>>,   \* SyncML with attributes and a text
    <<3, 1, 106, 0, 109, 0, 1, 76, 3, 49, 0, 1, 0, 0, 26, 1>> }
                                                   \* SyncML(NextNonce 1, Meta)

\* decode_wbxml(data) on a document written by hand
Decode ==
  /\ http.phase = "idle"
  /\ \E data \in Documents :
       http' = [phase |-> "decoded", data |-> data, result |-> decode(data)]
  /\ UNCHANGED <<sessions, packages>>

\* the documents that are well formed: the hand-written ones that decode, and
\* what the encoder writes for the smaller trees
WellFormed ==
  {data \in Documents : decode(data).raised = ""}
    \union {encode(root) : root \in Leaves \union Deep}

\* decode_wbxml on the first cut bytes of a well-formed document
DecodeTruncated ==
  /\ http.phase = "idle"
  /\ \E document \in WellFormed :
       \E cut \in 0..(Len(document) - 1) :
         http' = [phase |-> "truncated",
                  document |-> document,
                  data |-> SubSeq(document, 1, cut),
                  result |-> decode(SubSeq(document, 1, cut))]
  /\ UNCHANGED <<sessions, packages>>

\* the caller goes on to its next call
CodecReturned ==
  /\ http.phase \in {"round trip", "mb_uint32", "decoded", "truncated"}
  /\ http' = Idle
  /\ UNCHANGED <<sessions, packages>>

\* the codec is used without a session and without the catalog
InitCodec ==
  /\ sessions = [sid \in SessionIds |-> NoSession]
  /\ packages = << >>
  /\ http = Idle

NextCodec == EncodeDecode \/ MbUint32 \/ Decode \/ DecodeTruncated \/ CodecReturned

SpecCodec == InitCodec /\ [][NextCodec]_vars

----------------------------------------------------------------------------
(* syncml/auth.py: HMACAuth verifying the MAC of a client *)

\* HMACAuth() of the default credentials, with its server_nonce
HMACAuth(server_nonce) ==
  [username |-> DEFAULT_USERNAME, password |-> DEFAULT_PASSWORD,
   server_nonce |-> server_nonce]

\* lines 80-81 of verify_client_auth: the nonce it verifies with
NonceOrServerNonce(auth, nonce) ==
  IF nonce # None THEN nonce
  ELSE IF Truthy(auth.server_nonce) THEN auth.server_nonce ELSE ""

\* HMACAuth.verify_client_auth
verify_client_auth(auth, mac, username, body, nonce) ==
  \/ mac = compute_hmac(username, auth.password, NonceOrServerNonce(auth, nonce), body)
  \/ /\ username # auth.username
     /\ mac = compute_hmac(auth.username, auth.password,
                           NonceOrServerNonce(auth, nonce), body)

\* the bodies a MAC is computed over
MacBodies == {"", "1", "abc", "200"}

\* a client computes the MAC of body with produced_nonce, and the server verifies
\* it over the body presented, with the nonce given or its own
VerifyMac ==
  /\ http.phase = "idle"
  /\ \E auth \in {HMACAuth(None), HMACAuth("sn1")},
        username \in {DEFAULT_USERNAME, "user1"},
        produced_nonce \in {"", "sn1"},
        nonce \in {None, "", "sn1"},
        body \in MacBodies, presented \in MacBodies :
       http' = [phase |-> "verified",
                auth |-> auth,
                username |-> username,
                produced_nonce |-> produced_nonce,
                nonce |-> nonce,
                body |-> body,
                presented |-> presented,
                mac |-> compute_hmac(username, auth.password, produced_nonce, body),
                ok |-> verify_client_auth(
                         auth, compute_hmac(username, auth.password, produced_nonce, body),
                         username, presented, nonce)]
  /\ UNCHANGED <<sessions, packages>>

\* verify_client_auth returned
MacReturned ==
  /\ http.phase = "verified"
  /\ http' = Idle
  /\ UNCHANGED <<sessions, packages>>

NextMac == VerifyMac \/ MacReturned

SpecMac == InitAuth /\ [][NextMac]_vars

----------------------------------------------------------------------------
(* xml.etree.ElementTree: tostring and fromstring, on the documents of the  *)
(* model: elements, character data, the entities of the markup characters,  *)
(* attributes and the default namespace; they hold no comment, processing    *)
(* instruction, CDATA section or prefix.  A str is its code points; its     *)
(* UTF-8 encoding is the same sequence (ASCII).                              *)

\* elem.set(key, value), elem having no attribute yet
Attributed(elem, key, value) ==
  [tag |-> elem.tag, text |-> elem.text, children |-> elem.children,
   attrib |-> <<<<key, value>>>>]

\* elem.attrib as the sequence of its pairs
Attrib(elem) == IF "attrib" \in DOMAIN elem THEN elem.attrib ELSE << >>

\* "<?xml version='1.0' encoding='utf-8'?>\n"
XmlDeclaration ==
  <<60, 63, 120, 109, 108, 32, 118, 101, 114, 115, 105, 111, 110, 61, 39, 49, 46, 48, 39,
    32, 101, 110, 99, 111, 100, 105, 110, 103, 61, 39, 117, 116, 102, 45, 56, 39, 63, 62,
    10>>

\* the entity of a markup character: &amp; &lt; &gt; &quot;
Entity(c) ==
  CASE c = 38 -> <<38, 97, 109, 112, 59>>
    [] c = 60 -> <<38, 108, 116, 59>>
    [] c = 62 -> <<38, 103, 116, 59>>
    [] c = 34 -> <<38, 113, 117, 111, 116, 59>>

\* _escape_cdata (special = & < >) and _escape_attrib (special = & < > ")
RECURSIVE Escape(_, _)
Escape(text, special) ==
  IF text = << >> THEN << >>
  ELSE (IF text[1] \in special THEN Entity(text[1]) ELSE <<text[1]>>)
         \o Escape(Tail(text), special)

\* the attributes of a start tag
RECURSIVE SerializeAttrib(_)
SerializeAttrib(attrib) ==
  IF attrib = << >> THEN << >>
  ELSE <<32>> \o Codes(attrib[1][1]) \o <<61, 34>>
         \o Escape(attrib[1][2], {38, 60, 62, 34}) \o <<34>>
         \o SerializeAttrib(Tail(attrib))

\* _serialize_xml with short_empty_elements: the characters of an element
RECURSIVE _serialize_xml(_)
RECURSIVE SerializeChildren(_, _)
_serialize_xml(elem) ==
  <<60>> \o Codes(elem.tag) \o SerializeAttrib(Attrib(elem))
    \o (IF HasText(elem.text) \/ Len(elem.children) > 0
        THEN <<62>>
               \o (IF HasText(elem.text) THEN Escape(elem.text, {38, 60, 62}) ELSE << >>)
               \o SerializeChildren(elem.children, 1)
               \o <<60, 47>> \o Codes(elem.tag) \o <<62>>
        ELSE <<32, 47, 62>>)

SerializeChildren(children, i) ==
  IF i > Len(children) THEN << >>
  ELSE _serialize_xml(children[i]) \o SerializeChildren(children, i + 1)

\* ET.tostring(root, encoding='unicode', xml_declaration=True)
tostring(root) == XmlDeclaration \o _serialize_xml(root)

ParseError == Raised("ParseError")

IsNameChar(c) == c \in (48..57) \cup (65..90) \cup (97..122) \cup {45, 46, 58, 95}
IsSpace(c) == c \in {9, 10, 13, 32}

\* the index behind the name that starts at i
NameEnd(data, i) ==
  IF \E j \in i..Len(data) : ~IsNameChar(data[j])
  THEN CHOOSE j \in i..Len(data) :
         ~IsNameChar(data[j]) /\ \A k \in i..(j - 1) : IsNameChar(data[k])
  ELSE IF i > Len(data) THEN i ELSE Len(data) + 1

\* the index behind the white space that starts at i
SpaceEnd(data, i) ==
  IF \E j \in i..Len(data) : ~IsSpace(data[j])
  THEN CHOOSE j \in i..Len(data) : ~IsSpace(data[j]) /\ \A k \in i..(j - 1) : IsSpace(data[k])
  ELSE IF i > Len(data) THEN i ELSE Len(data) + 1

\* the index of the first c from i on, Len(data) + 1 when there is none
Find(data, c, i) ==
  IF \E j \in i..Len(data) : data[j] = c
  THEN CHOOSE j \in i..Len(data) : data[j] = c /\ \A k \in i..(j - 1) : data[k] # c
  ELSE IF i > Len(data) THEN i ELSE Len(data) + 1

\* the character of an entity name: amp lt gt quot apos; << >> for another name
Character(name) ==
  CASE name = <<97, 109, 112>> -> <<38>>
    [] name = <<108, 116>> -> <<60>>
    [] name = <<103, 116>> -> <<62>>
    [] name = <<113, 117, 111, 116>> -> <<34>>
    [] name = <<97, 112, 111, 115>> -> <<39>>
    [] OTHER -> << >>

\* character data with its entities replaced: <<the text>>, << >> when it is not
\* well formed
RECURSIVE Unescape(_)
UnescapeEntity(text, amp, semicolon, rest) ==
  IF semicolon > Len(text) \/ Character(SubSeq(text, amp + 1, semicolon - 1)) = << >>
     \/ rest = << >>
  THEN << >>
  ELSE <<SubSeq(text, 1, amp - 1) \o Character(SubSeq(text, amp + 1, semicolon - 1))
         \o rest[1]>>

Unescape(text) ==
  IF Find(text, 38, 1) > Len(text) THEN <<text>>
  ELSE UnescapeEntity(text, Find(text, 38, 1), Find(text, 59, Find(text, 38, 1)),
                      IF Find(text, 59, Find(text, 38, 1)) > Len(text) THEN << >>
                      ELSE Unescape(SubSeq(text, Find(text, 59, Find(text, 38, 1)) + 1,
                                           Len(text))))

\* the attributes of a start tag from i on: attrib and the index of its > or /
RECURSIVE XmlAttributes(_, _, _)
XmlAttribute(data, name, eq, attrib) ==
  IF eq = name \/ eq + 1 > Len(data) \/ data[eq] # 61 \/ data[eq + 1] \notin {34, 39}
     \/ Find(data, data[eq + 1], eq + 2) > Len(data)
     \/ Unescape(SubSeq(data, eq + 2, Find(data, data[eq + 1], eq + 2) - 1)) = << >>
  THEN ParseError
  ELSE XmlAttributes(
         data, Find(data, data[eq + 1], eq + 2) + 1,
         Append(attrib,
                <<StringOf(SubSeq(data, name, eq - 1)),
                  Unescape(SubSeq(data, eq + 2, Find(data, data[eq + 1], eq + 2) - 1))[1]>>))

XmlAttributes(data, i, attrib) ==
  IF SpaceEnd(data, i) > Len(data) THEN ParseError
  ELSE IF data[SpaceEnd(data, i)] \in {47, 62}
  THEN [raised |-> "", attrib |-> attrib, pos |-> SpaceEnd(data, i)]
  ELSE IF SpaceEnd(data, i) = i THEN ParseError
  ELSE XmlAttribute(data, SpaceEnd(data, i), NameEnd(data, SpaceEnd(data, i)), attrib)

\* the default namespace in scope below a start tag with attrib
Namespace(attrib, ns) ==
  IF \E k \in 1..Len(attrib) : attrib[k][1] = "xmlns"
  THEN StringOf(attrib[CHOOSE k \in 1..Len(attrib) : attrib[k][1] = "xmlns"][2])
  ELSE ns

\* the tag of an element of the namespace ns
Qualified(ns, name) ==
  IF ns = "" THEN StringOf(name) ELSE "{" \o ns \o "}" \o StringOf(name)

\* the element the parser builds: the declaration of the namespace is no attribute
Built(tag, text, children, attrib) ==
  IF SelectSeq(attrib, LAMBDA a : a[1] # "xmlns") = << >>
  THEN Element(tag, text, children)
  ELSE [tag |-> tag, text |-> text, children |-> children,
        attrib |-> SelectSeq(attrib, LAMBDA a : a[1] # "xmlns")]

\* the element closed by its end tag
XmlAfterContent(tag, attrib, content) ==
  IF content.raised # "" THEN content
  ELSE [raised |-> "",
        elem |-> <<Built(tag, content.text, content.children, attrib)>>,
        pos |-> content.pos]

RECURSIVE XmlElement(_, _, _)
RECURSIVE XmlOpened(_, _, _, _)
RECURSIVE XmlContent(_, _, _, _, _)
RECURSIVE XmlAfterChild(_, _, _, _, _)

\* the element that starts at i, in the namespace ns
XmlElement(data, i, ns) ==
  IF i > Len(data) \/ data[i] # 60 \/ NameEnd(data, i + 1) = i + 1 THEN ParseError
  ELSE XmlOpened(data, SubSeq(data, i + 1, NameEnd(data, i + 1) - 1), ns,
                 XmlAttributes(data, NameEnd(data, i + 1), << >>))

\* after the name and the attributes of the start tag
XmlOpened(data, name, ns, attrs) ==
  IF attrs.raised # "" THEN attrs
  ELSE IF data[attrs.pos] = 47
  THEN (IF attrs.pos + 1 <= Len(data) /\ data[attrs.pos + 1] = 62
        THEN [raised |-> "",
              elem |-> <<Built(Qualified(Namespace(attrs.attrib, ns), name), NoText, << >>,
                               attrs.attrib)>>,
              pos |-> attrs.pos + 2]
        ELSE ParseError)
  ELSE XmlAfterContent(Qualified(Namespace(attrs.attrib, ns), name), attrs.attrib,
                       XmlContent(data, attrs.pos + 1, Namespace(attrs.attrib, ns), name,
                                  Content(FALSE, << >>, << >>)))

\* the content of the element name from i on, up to its end tag; character data
\* behind a child is the child's tail, which the model's elements do not keep
XmlContent(data, i, ns, name, content) ==
  CASE i > Len(data) -> ParseError
    [] i < Len(data) /\ data[i] = 60 /\ data[i + 1] = 47 ->
         (IF /\ SubSeq(data, i + 2, NameEnd(data, i + 2) - 1) = name
             /\ SpaceEnd(data, NameEnd(data, i + 2)) <= Len(data)
             /\ data[SpaceEnd(data, NameEnd(data, i + 2))] = 62
          THEN [raised |-> "",
                text |-> IF content.has_text THEN content.text ELSE NoText,
                children |-> content.children,
                pos |-> SpaceEnd(data, NameEnd(data, i + 2)) + 1]
          ELSE ParseError)
    [] i <= Len(data) /\ data[i] = 60 /\ (i = Len(data) \/ data[i + 1] # 47) ->
         XmlAfterChild(data, ns, name, content, XmlElement(data, i, ns))
    [] i <= Len(data) /\ data[i] # 60
       /\ Unescape(SubSeq(data, i, Find(data, 60, i) - 1)) = << >> -> ParseError
    [] OTHER ->
         XmlContent(data, Find(data, 60, i), ns, name,
                    IF content.children = << >>
                    THEN AddText(content,
                                 [value |-> Unescape(SubSeq(data, i, Find(data, 60, i) - 1))[1]])
                    ELSE content)

XmlAfterChild(data, ns, name, content, child) ==
  IF child.raised # "" THEN child
  ELSE XmlContent(data, child.pos, ns, name, AddChild(content, child))

\* the document: an optional declaration, the root element, and nothing behind
\* it but white space
DeclarationEnd(data) ==
  IF Len(data) >= 5 /\ SubSeq(data, 1, 5) = <<60, 63, 120, 109, 108>>
  THEN Find(data, 62, 1) + 1
  ELSE 1

XmlDocument(data, root) ==
  IF root.raised # "" THEN root
  ELSE IF SpaceEnd(data, root.pos) <= Len(data) THEN ParseError
  ELSE root

\* ET.fromstring(data): a byte that is no character of the model's documents is
\* not well formed
fromstring(data) ==
  IF \E i \in 1..Len(data) : data[i] >= 127 \/ (data[i] < 32 /\ ~IsSpace(data[i]))
  THEN ParseError
  ELSE XmlDocument(data, XmlElement(data, SpaceEnd(data, DeclarationEnd(data)), ""))

----------------------------------------------------------------------------
(* syncml/parser.py: SyncMLParser on element trees.  A text is its code      *)
(* points, NoText for None; a dict is the set of its <<key, value>> pairs.   *)

\* elem.find(tag): <<the first child of that tag>>, << >> for None
find(elem, tag) ==
  IF \E k \in 1..Len(elem.children) : elem.children[k].tag = tag
  THEN <<elem.children[CHOOSE k \in 1..Len(elem.children) :
                         /\ elem.children[k].tag = tag
                         /\ \A j \in 1..(k - 1) : elem.children[j].tag # tag]>>
  ELSE << >>

\* elem.findall(tag)
findall(elem, tag) == SelectSeq(elem.children, LAMBDA child : child.tag = tag)

\* elem.find('.//' + tag): the first descendant of that tag in document order
RECURSIVE FindDescendant(_, _)
RECURSIVE FindBelow(_, _, _)
FindDescendant(elem, tag) == FindBelow(elem.children, 1, tag)

FindBelow(children, i, tag) ==
  IF i > Len(children) THEN << >>
  ELSE IF children[i].tag = tag THEN <<children[i]>>
  ELSE IF FindDescendant(children[i], tag) # << >> THEN FindDescendant(children[i], tag)
  ELSE FindBelow(children, i + 1, tag)

\* SyncMLParser._get_text
_get_text(elem, tag, default) ==
  IF find(elem, tag) # << >> /\ HasText(find(elem, tag)[1].text)
  THEN find(elem, tag)[1].text
  ELSE default

\* _get_text of the LocURI of the child named tag, when there is one
LocURI(elem, tag, absent) ==
  IF find(elem, tag) # << >> THEN _get_text(find(elem, tag)[1], "LocURI", << >>)
  ELSE absent

\* result[key] = value
SetItem(dict, key, value) == {pair \in dict : pair[1] # key} \cup {<<key, value>>}

\* dict.get(key): <<the value>>, << >> for None
GetItem(dict, key) ==
  IF \E pair \in dict : pair[1] = key
  THEN <<(CHOOSE pair \in dict : pair[1] = key)[2]>>
  ELSE << >>

\* SyncMLParser._parse_meta, from the child i on
RECURSIVE ParseMetaFrom(_, _, _)
ParseMetaFrom(children, i, result) ==
  IF i > Len(children) THEN result
  ELSE ParseMetaFrom(children, i + 1,
                     IF HasText(children[i].text)
                     THEN SetItem(result, children[i].tag, children[i].text)
                     ELSE result)

_parse_meta(meta) == ParseMetaFrom(meta.children, 1, {})

\* the meta of the child Meta, {} without one
MetaOf(elem) == IF find(elem, "Meta") # << >> THEN _parse_meta(find(elem, "Meta")[1]) ELSE {}

\* SyncMLParser._parse_item
_parse_item(elem) ==
  [target |-> LocURI(elem, "Target", NoText),
   source |-> LocURI(elem, "Source", NoText),
   data |-> _get_text(elem, "Data", NoText),
   meta |-> MetaOf(elem)]

\* SyncMLParser._parse_command
_parse_command(elem) ==
  [name |-> elem.tag,
   cmd_id |-> _get_text(elem, "CmdID", << >>),
   msg_ref |-> _get_text(elem, "MsgRef", NoText),
   cmd_ref |-> _get_text(elem, "CmdRef", NoText),
   cmd |-> _get_text(elem, "Cmd", NoText),
   target_ref |-> _get_text(elem, "TargetRef", NoText),
   source_ref |-> _get_text(elem, "SourceRef", NoText),
   data |-> _get_text(elem, "Data", NoText),
   no_resp |-> find(elem, "NoResp") # << >>,
   items |-> [k \in 1..Len(findall(elem, "Item")) |-> _parse_item(findall(elem, "Item")[k])],
   meta |-> MetaOf(elem)]

\* SyncMLParser._parse_body
_parse_body(body) ==
  [k \in 1..Len(SelectSeq(body.children, LAMBDA child : child.tag # "Final")) |->
     _parse_command(SelectSeq(body.children, LAMBDA child : child.tag # "Final")[k])]

\* lines 152-158 of _parse_header: cred_type, cred_format and cred_data
Cred(hdr) ==
  IF find(hdr, "Cred") = << >>
  THEN [cred_type |-> NoText, cred_format |-> NoText, cred_data |-> NoText]
  ELSE [cred_type |->
          IF find(find(hdr, "Cred")[1], "Meta") = << >> THEN NoText
          ELSE _get_text(find(find(hdr, "Cred")[1], "Meta")[1], "Type", << >>),
        cred_format |->
          IF find(find(hdr, "Cred")[1], "Meta") = << >> THEN NoText
          ELSE _get_text(find(find(hdr, "Cred")[1], "Meta")[1], "Format", << >>),
        cred_data |-> _get_text(find(hdr, "Cred")[1], "Data", << >>)]

\* SyncMLParser._parse_header
_parse_header(hdr) ==
  [ver_dtd |-> _get_text(hdr, "VerDTD", Codes("1.2")),
   ver_proto |-> _get_text(hdr, "VerProto", Codes("DM/1.2")),
   session_id |-> _get_text(hdr, "SessionID", << >>),
   msg_id |-> _get_text(hdr, "MsgID", << >>),
   target |-> LocURI(hdr, "Target", << >>),
   source |-> LocURI(hdr, "Source", << >>),
   cred |-> Cred(hdr),
   meta |-> MetaOf(hdr)]

\* SyncMLHeader()
SyncMLHeader ==
  [ver_dtd |-> Codes("1.2"), ver_proto |-> Codes("DM/1.2"), session_id |-> << >>,
   msg_id |-> << >>, target |-> << >>, source |-> << >>,
   cred |-> [cred_type |-> NoText, cred_format |-> NoText, cred_data |-> NoText],
   meta |-> {}]

\* root.find('.//' + tag), and root.find(tag) when it finds none
FindSection(root, tag) ==
  IF FindDescendant(root, tag) # << >> THEN FindDescendant(root, tag) ELSE find(root, tag)

\* SyncMLParser._parse_syncml
_parse_syncml(root) ==
  [header |-> IF FindSection(root, "SyncHdr") # << >>
              THEN _parse_header(FindSection(root, "SyncHdr")[1])
              ELSE SyncMLHeader,
   commands |-> IF FindSection(root, "SyncBody") # << >>
                THEN _parse_body(FindSection(root, "SyncBody")[1])
                ELSE << >>,
   is_final |-> /\ FindSection(root, "SyncBody") # << >>
                /\ find(FindSection(root, "SyncBody")[1], "Final") # << >>]

\* content_type.endswith(suffix), and suffix in content_type
EndsWith(s, suffix) ==
  Len(s) >= Len(suffix) /\ SubSeq(s, Len(s) - Len(suffix) + 1, Len(s)) = suffix

\* line 88 of parse: the body is taken for WBXML
IsWbxml(data, content_type) ==
  EndsWith(content_type, Codes("wbxml")) \/ (Len(data) > 0 /\ data[1] \in {2, 3})

\* what decode and fromstring return, parsed by _parse_syncml when it is a tree
ParsedTree(root) ==
  IF root.raised # "" THEN root
  ELSE IF root.elem = << >> THEN Raised("AttributeError")
  ELSE [raised |-> "", message |-> _parse_syncml(root.elem[1])]

\* SyncMLParser.parse
parse(data, content_type) ==
  IF IsWbxml(data, content_type) THEN ParsedTree(decode(data))
  ELSE ParsedTree(fromstring(data))

----------------------------------------------------------------------------
(* syncml/builder.py: the element trees SyncMLBuilder builds.  The records  *)
(* of build_response and of the build_ methods name the texts of an element; *)
(* these are the elements with their children in the order of the code.     *)

\* the text of a str value
Text(value) == IF value = None THEN NoText ELSE Codes(value)

\* ET.SubElement(parent, tag).text = value
SubElement(tag, value) == Element(tag, Text(value), << >>)

\* ET.SubElement(parent, tag) with a LocURI below it
WithLocURI(tag, value) == Element(tag, NoText, <<SubElement("LocURI", value)>>)

\* what _build_header appends to hdr
HeaderElement(hdr) ==
  Element("SyncHdr", NoText,
          <<SubElement("VerDTD", hdr.VerDTD), SubElement("VerProto", hdr.VerProto),
            SubElement("SessionID", hdr.SessionID), SubElement("MsgID", hdr.MsgID),
            WithLocURI("Target", hdr.Target), WithLocURI("Source", hdr.Source)>>)

\* what _build_status appends to elem
StatusElement(status) ==
  Element("Status", NoText,
          <<SubElement("CmdID", status.CmdID), SubElement("MsgRef", status.MsgRef),
            SubElement("CmdRef", status.CmdRef), SubElement("Cmd", status.Cmd),
            SubElement("Data", status.Data)>>
          \o (IF status.TargetRef # None THEN <<SubElement("TargetRef", status.TargetRef)>>
              ELSE << >>)
          \o (IF status.SourceRef # None THEN <<SubElement("SourceRef", status.SourceRef)>>
              ELSE << >>))

\* an Item of build_get, build_replace, build_exec and build_results: Target for
\* a target, Source for a source, Data for a data that is not None
ItemElement(item) ==
  Element("Item", NoText,
          (IF "target" \in DOMAIN item /\ Truthy(item.target)
           THEN <<WithLocURI("Target", item.target)>> ELSE << >>)
          \o (IF "source" \in DOMAIN item /\ Truthy(item.source)
              THEN <<WithLocURI("Source", item.source)>> ELSE << >>)
          \o (IF "data" \in DOMAIN item /\ item.data # None
              THEN <<SubElement("Data", item.data)>> ELSE << >>))

\* the element of a command of the response
CommandElement(command) ==
  Element(command.tag, NoText,
          <<SubElement("CmdID", command.CmdID)>>
          \o (IF command.tag = "Results"
              THEN <<SubElement("MsgRef", command.MsgRef),
                     SubElement("CmdRef", command.CmdRef)>>
              ELSE << >>)
          \o [k \in 1..Len(command.items) |-> ItemElement(command.items[k])])

\* a child of SyncBody
BodyElement(child) ==
  IF child.tag = "Status" THEN StatusElement(child)
  ELSE IF child.tag = "Final" THEN Element("Final", NoText, << >>)
  ELSE CommandElement(child)

\* the tree build_response returns
ResponseElement(response) ==
  Attributed(
    Element("SyncML", NoText,
            <<HeaderElement(response.hdr),
              Element("SyncBody", NoText,
                      [k \in 1..Len(response.body) |-> BodyElement(response.body[k])])>>),
    "xmlns", Codes("SYNCML:SYNCML1.2"))

\* SyncMLBuilder.to_xml_string(root).encode('utf-8'), and to_wbxml(root)
to_xml_string(root) == tostring(root)
to_wbxml(root) == encode(root)

----------------------------------------------------------------------------
(* base64.b64decode on a str of ASCII characters *)

\* the value of a Base64 digit, 64 for another character
B64Value(c) ==
  IF \E v \in 0..63 : B64(v) = c THEN CHOOSE v \in 0..63 : B64(v) = c ELSE 64

\* binascii.a2b_base64 outside its strict mode, from the character i on:
\* <<the bytes>>, << >> when it raises binascii.Error
RECURSIVE a2b_base64(_, _, _, _, _, _)
a2b_base64(text, i, quad_pos, leftchar, pads, out) ==
  CASE i > Len(text) -> IF quad_pos # 0 THEN << >> ELSE <<out>>
    [] i <= Len(text) /\ text[i] = 61 ->
         IF quad_pos >= 2 /\ quad_pos + pads + 1 >= 4 THEN <<out>>
         ELSE a2b_base64(text, i + 1, quad_pos, leftchar,
                         IF quad_pos >= 2 THEN pads + 1 ELSE pads, out)
    [] i <= Len(text) /\ text[i] # 61 /\ B64Value(text[i]) = 64 ->
         a2b_base64(text, i + 1, quad_pos, leftchar, pads, out)
    [] i <= Len(text) /\ B64Value(text[i]) # 64 /\ quad_pos = 0 ->
         a2b_base64(text, i + 1, 1, B64Value(text[i]), 0, out)
    [] i <= Len(text) /\ B64Value(text[i]) # 64 /\ quad_pos = 1 ->
         a2b_base64(text, i + 1, 2, B64Value(text[i]) % 16, 0,
                    Append(out, (leftchar * 4) + (B64Value(text[i]) \div 16)))
    [] i <= Len(text) /\ B64Value(text[i]) # 64 /\ quad_pos = 2 ->
         a2b_base64(text, i + 1, 3, B64Value(text[i]) % 4, 0,
                    Append(out, (leftchar * 16) + (B64Value(text[i]) \div 4)))
    [] OTHER ->
         a2b_base64(text, i + 1, 0, 0, 0, Append(out, (leftchar * 64) + B64Value(text[i])))

\* base64.b64decode(text)
b64decode_text(text) == a2b_base64(text, 1, 0, 0, 0, << >>)

----------------------------------------------------------------------------
(* Messages on the wire: what SyncMLBuilder serializes, and what the         *)
(* endpoint reads off a request body.                                        *)

\* the statuses and commands of responses: the SyncHdr status alone, with the
\* Status and the Get for an Alert, with the Status for an Alert, with the
\* Status and the Results for a Get, and with a Replace and an Exec
Exchanges(msg_ref, device) ==
  LET hdr == StatusBuilder(msg_ref, "0", "SyncHdr", STATUS_AUTH_ACCEPTED, SERVER_ID, device)
      alert == StatusBuilder(msg_ref, "1", "Alert", STATUS_OK, None, None)
      get == StatusBuilder(msg_ref, "1", "Get", STATUS_OK, None, None)
  IN { [statuses |-> <<hdr>>, commands |-> << >>],
       [statuses |-> <<hdr, alert>>,
        commands |-> <<build_get(reset_cmd_id, DEVICE_INFO_TARGETS)>>],
       [statuses |-> <<hdr, alert>>, commands |-> << >>],
       [statuses |-> <<hdr, get>>,
        commands |-> <<build_results(reset_cmd_id, msg_ref, "1",
                                     <<[source |-> "./Software/Build",
                                        data |-> "Nova-3.0.5-64"]>>)>>],
       [statuses |-> <<hdr>>,
        commands |-> <<build_replace(reset_cmd_id,
                                     <<[target |-> "./Software/Package/PkgURL",
                                        data |-> "abc"],
                                       [target |-> "./Vendor/Unknown", data |-> ""]>>),
                       build_exec(next_cmd_id(reset_cmd_id), "./Software/Build")>>] }

\* the messages build_response builds for them
BuiltResponses ==
  UNION {{build_response(session_id, msg_id, device, None,
                         exchange.statuses, exchange.commands) :
            exchange \in Exchanges(msg_id, device)} :
         session_id \in {"42", "43"}, msg_id \in {"1", "2", "3"},
         device \in {"DEV-A", "DEV-B"}}

WbxmlType == Codes("application/vnd.syncml.dm+wbxml")
XmlType == Codes("application/vnd.syncml.dm+xml")

\* a message of build_response serialized by to_wbxml and by to_xml_string, and
\* each serialization parsed by SyncMLParser.parse
Serialized(response, wbxml, xml) ==
  [phase |-> "serialized", response |-> response, wbxml |-> wbxml, xml |-> xml,
   from_wbxml |-> parse(wbxml, WbxmlType), from_xml |-> parse(xml, XmlType)]

Serialize ==
  /\ http.phase = "idle"
  /\ \E response \in BuiltResponses :
       \E wbxml \in {to_wbxml(ResponseElement(response))},
          xml \in {encode_utf8(to_xml_string(ResponseElement(response)))} :
         http' = Serialized(response, wbxml, xml)
  /\ UNCHANGED <<sessions, packages>>

\* the Content-Type headers of requests: none, the two of SyncML DM, and the
\* WBXML one with a parameter
ContentTypes ==
  {<< >>, XmlType, WbxmlType, Codes("application/vnd.syncml.dm+wbxml; charset=utf-8")}

\* the message of a client: SyncHdr with SessionID, MsgID, Source and
\* Meta/NextNonce, and an empty SyncBody
RequestElement(next_nonce) ==
  Element("SyncML", NoText,
          <<Element("SyncHdr", NoText,
                    <<SubElement("SessionID", "42"), SubElement("MsgID", "1"),
                      WithLocURI("Source", "DEV-A"),
                      Element("Meta", NoText,
                              <<Element("NextNonce", next_nonce, << >>)>>)>>),
            Element("SyncBody", NoText, <<Element("Final", NoText, << >>)>>)>>)

\* the WBXML of a message whose NextNonce is an OPAQUE of the bytes nonce (as
\* WBXMLEncoder.write_opaque writes one): SyncML, SyncHdr, SessionID 42, Meta,
\* and NextNonce in code page 1
OpaqueNonceDocument(nonce) ==
  <<3, 164, 1, 106, 0, 109, 108, 101, STR_I, 52, 50, 0, END, 90, SWITCH_PAGE, 1, 80, OPAQUE>>
    \o write_mb_uint32(Len(nonce)) \o nonce \o <<END, END, END, END>>

\* the nonces sent as OPAQUE: b"abcd", b"cn1", bytes that are not UTF-8, control
\* bytes, a zero byte and no byte
OpaqueNonces ==
  {<<97, 98, 99, 100>>, <<99, 110, 49>>, <<255, 254, 1, 2>>, <<1, 2, 3>>, <<0>>, << >>}

\* the WBXML bodies of requests: with an OPAQUE nonce, and of version 1.3, 1.2
\* and 1.1 with the nonce b"cn1" as Base64 text
WbxmlBodies ==
  {OpaqueNonceDocument(nonce) : nonce \in OpaqueNonces}
    \cup {<<version>> \o Tail(encode(RequestElement(b64encode(<<99, 110, 49>>)))) :
            version \in {1, 2, 3}}

\* the same message as XML, without and with the SyncML namespace
XmlBodies ==
  {encode_utf8(tostring(RequestElement(b64encode(<<99, 110, 49>>)))),
   encode_utf8(tostring(Attributed(RequestElement(b64encode(<<99, 110, 49>>)),
                                   "xmlns", Codes("SYNCML:SYNCML1.2"))))}

\* the bodies of requests, and no body
WireBodies == WbxmlBodies \cup XmlBodies \cup {<< >>}

\* the requests posted, <<Content-Type, body>>: a WBXML body or none under every
\* Content-Type, an XML body under all but the plain WBXML one (under which the
\* decoder would read its characters as tokens)
Requests ==
  (ContentTypes \X (WbxmlBodies \cup {<< >>}))
    \cup ((ContentTypes \ {WbxmlType}) \X XmlBodies)

\* lines 127-134: <<the bytes session.client_nonce is set to>>, << >> when it is
\* not set
ClientNonce(message) ==
  IF GetItem(message.header.meta, "NextNonce") = << >> THEN << >>
  ELSE b64decode_text(GetItem(message.header.meta, "NextNonce")[1])

\* lines 171-181: the media type of the response
ResponseType(content_type) ==
  IF Contains(content_type, Codes("wbxml")) THEN WbxmlType ELSE XmlType

\* lines 94-134 and 171-211 of oma_dm_endpoint on a body of the wire: the message
\* parsed, the client nonce kept and the family of the response; a body that
\* does not parse gets the HTTP 500 of line 211.  What the endpoint makes of the
\* message in between is Endpoint.
Posted(content_type, data, parsed) ==
  [phase |-> "posted", content_type |-> content_type, data |-> data,
   is_wbxml |-> IsWbxml(data, content_type),
   parsed |-> parsed,
   status_code |-> IF parsed.raised = "" THEN 200 ELSE 500,
   client_nonce |-> IF parsed.raised = "" THEN ClientNonce(parsed.message) ELSE << >>,
   media_type |-> IF parsed.raised = "" THEN <<ResponseType(content_type)>> ELSE << >>]

Post ==
  /\ http.phase = "idle"
  /\ \E request \in Requests :
       \E parsed \in {parse(request[2], request[1])} :
         http' = Posted(request[1], request[2], parsed)
  /\ UNCHANGED <<sessions, packages>>

\* the transport sends what the endpoint returned
WireReturned ==
  /\ http.phase \in {"serialized", "posted"}
  /\ http' = Idle
  /\ UNCHANGED <<sessions, packages>>

NextWire == Serialize \/ Post \/ WireReturned

SpecWire == InitCodec /\ [][NextWire]_vars
----------------------------------------------------------------------------
(* What the properties read off the state *)

\* the exchange in flight is a request whose body parsed
Parsed == http.phase # "idle" /\ "message" \in DOMAIN http

\* the exchange in flight ended with a SyncML response
Answered == http.phase = "done"

\* the exchange in flight is the first of a Session object
First == Parsed /\ http.created

\* the session of the exchange in flight
Current == sessions[http.message.session_id]

\* the children of SyncBody that carry a CmdID, in document order
Numberable(body) == SelectSeq(body, LAMBDA e : e.tag # "Final")

\* the number a MsgID text spells
MsgIdValue(text) == CHOOSE n \in 0..(MaxMsgId + 1) : Str(n) = text

\* the position of a state on the chain Init -> ... -> Complete
Rank(state) ==
  CASE state = INIT -> 0
    [] state = AUTHENTICATED -> 1
    [] state = MANAGEMENT -> 2
    [] state = UPDATE_AVAILABLE -> 3
    [] state = DOWNLOADING -> 4
    [] state = COMPLETE -> 5
    [] state = ERROR -> 6

\* the Data of the Status for SyncHdr in a response
HdrStatusData(response) ==
  LET st == SelectSeq(response.body, LAMBDA e : e.tag = "Status" /\ e.Cmd = "SyncHdr")
  IN st[1].Data

\* the targets the update offer's Replace must set
OfferTargets ==
  {"./Software/Package/PkgName", "./Software/Package/PkgVersion",
   "./Software/Package/PkgURL", "./Software/Package/PkgSize",
   "./Software/Package/PkgDesc"}

\* body has a Replace setting the offer's targets immediately followed by the Exec
HasOffer(body) ==
  \E i \in 1..(Len(body) - 1) :
    /\ body[i].tag = "Replace"
    /\ OfferTargets \subseteq {body[i].items[k].target : k \in 1..Len(body[i].items)}
    /\ body[i + 1].tag = "Exec"
    /\ body[i + 1].items[1].target = "./Software/Operations/DownloadAndInstall"

\* body has neither a Replace nor an Exec
NoOffer(body) == \A i \in 1..Len(body) : body[i].tag \notin {"Replace", "Exec"}

----------------------------------------------------------------------------
(* C1 *)

\* C1 as claimed: in every response the CmdIDs of the children of SyncBody, read
\* in document order, are 1, 2, ..., n
C1_CmdIdsAscending ==
  Answered =>
    LET els == Numberable(http.response[1].body)
    IN \A i \in 1..Len(els) : els[i].CmdID = Str(i)

----------------------------------------------------------------------------
(* C2 *)

\* C2: the MsgIDs of the responses emitted for a session are strictly ascending
C2_MsgIdsAscending ==
  \A sid \in SessionIds :
    sessions[sid] # NoSession =>
      LET ids == sessions[sid].emitted
      IN \A i, j \in 1..Len(ids) : i < j => MsgIdValue(ids[i]) < MsgIdValue(ids[j])

\* a session has answered twice, the second time after a request that raised
C2_Witness ==
  \E sid \in SessionIds :
    /\ sessions[sid] # NoSession
    /\ Len(sessions[sid].emitted) >= 2
    /\ sessions[sid].msg_id > Len(sessions[sid].emitted)

----------------------------------------------------------------------------
(* C3 *)

\* C3 as claimed: no step moves a Session object to an earlier state of the chain
C3_StateOnlyAdvances ==
  [][\A sid \in SessionIds :
       (sessions[sid] # NoSession /\ sessions'[sid] # NoSession /\ ~First')
         => Rank(sessions'[sid].state) >= Rank(sessions[sid].state)]_vars

----------------------------------------------------------------------------
(* C4 *)

\* C4 as claimed: once the first message of a session is answered the session is
\* authenticated, its state is no longer Init, and the SyncHdr status is 212
C4_FirstMessage ==
  (First /\ Answered) =>
    /\ Current.authenticated
    /\ Current.state # INIT
    /\ HdrStatusData(http.response[1]) = Str(STATUS_AUTH_ACCEPTED)

----------------------------------------------------------------------------
(* C5 *)

----------------------------------------------------------------------------
(* C6 *)

\* C6 as claimed: the MAC of a session's first message is verified with the empty
\* nonce, that of a later message with a nonce the server has sent in the session
C6_VerifyNonceWasSent ==
  (Parsed /\ http.verified) =>
    IF http.created THEN http.verify_nonce = ""
    ELSE http.verify_nonce \in Current.published

----------------------------------------------------------------------------
(* C7 *)

\* C7 as claimed: every response's SyncHdr carries a Meta/NextNonce, which is the
\* session's server_nonce and was not published in the session before
C7_FreshNextNonce ==
  [][Answered' =>
       LET hdr == http'.response[1].hdr
           sid == http'.message.session_id
       IN /\ hdr.Meta # None
          /\ sessions'[sid].server_nonce = hdr.Meta
          /\ (~http'.created => hdr.Meta \notin sessions[sid].published)]_vars

----------------------------------------------------------------------------
(* C8 *)

\* the MAC the server's key gives the response of exchange under nonce
ServerMac(exchange, nonce) ==
  compute_hmac(SERVER_USERNAME, SERVER_PASSWORD, nonce, exchange.response[1])

\* the response of exchange has an x-syncml-hmac header exactly when the request
\* had one, and its MAC is the server's under nonce
ResponseMacUnder(exchange, nonce) ==
  /\ (exchange.response_headers # << >>) <=> (exchange.hmac_header # << >>)
  /\ exchange.response_headers # << >>
       => exchange.response_headers[1].mac = ServerMac(exchange, nonce)

\* C8 as claimed: the nonce of the response's MAC is the one this request's
\* NextNonce decodes to, and empty when this request has none
C8_NonceOfThisRequest ==
  Answered =>
    ResponseMacUnder(http,
                     IF Truthy(http.message.NextNonce)
                        /\ b64decode(http.message.NextNonce) # << >>
                     THEN b64decode(http.message.NextNonce)[1]
                     ELSE "")

\* C8 amended: the nonce is the one the latest decodable NextNonce of the session's
\* requests, this one included, decodes to, and empty when there has been none
C8_NonceOfTheSession ==
  [][Answered' =>
       LET message == http'.message
           earlier == IF http'.created THEN ""
                      ELSE sessions[message.session_id].client_nonce
           nonce == IF Truthy(message.NextNonce) /\ b64decode(message.NextNonce) # << >>
                    THEN b64decode(message.NextNonce)[1]
                    ELSE earlier
       IN ResponseMacUnder(http', nonce)]_vars

\* a response's MAC uses the nonce of an earlier request: this request has a MAC
\* header and no NextNonce, and the session holds a client nonce
C8_Witness ==
  /\ Answered
  /\ ~http.created
  /\ http.hmac_header # << >>
  /\ http.message.NextNonce = None
  /\ Current.client_nonce # ""
  /\ http.response_headers # << >>

----------------------------------------------------------------------------
(* C9 *)

\* C9 as claimed: every request that parses leaves its session authenticated and
\* is answered with a SyncHdr status of 212
C9_AlwaysAccepted ==
  Parsed =>
    /\ Current.authenticated
    /\ Answered
    /\ HdrStatusData(http.response[1]) = Str(STATUS_AUTH_ACCEPTED)

----------------------------------------------------------------------------
(* C10 *)

\* C10: a Session object that is authenticated stays authenticated
C10_AuthenticatedStays ==
  [][\A sid \in SessionIds :
       (sessions[sid] # NoSession /\ sessions[sid].authenticated
        /\ sessions'[sid] # NoSession /\ ~First')
         => sessions'[sid].authenticated]_vars

\* an authenticated session has handled a later request whose MAC does not match
C10_Witness ==
  /\ Parsed
  /\ ~http.created
  /\ http.hmac_header # << >>
  /\ http.hmac_header[1].mac # ExpectedMac(Current, http.hmac_header, http.message)
  /\ Current.authenticated
  /\ Len(Current.emitted) >= 2

----------------------------------------------------------------------------
(* C11 *)

\* C11 as claimed: every message processed in a session comes from the device the
\* session was created for
C11_OneDevicePerSession ==
  Parsed => http.message.source = Current.device_id

----------------------------------------------------------------------------
(* C12 *)

\* the store without any session
NoSessions == [sid \in SessionIds |-> NoSession]

\* C12: a request that bears the id of a session idle for longer than the timeout is
\* handled exactly as if the store held no session under that id: the session it
\* creates (state Init, not authenticated, msg_id 0, empty device_info, a nonce
\* newly drawn) replaces the old one, and nothing of the old one reaches the handler
C12_ExpiredIsNew ==
  [][\A sid \in SessionIds :
       (/\ http.phase = "idle"
        /\ Parsed'
        /\ http'.message.session_id = sid
        /\ sessions[sid] # NoSession
        /\ is_expired(sessions[sid], SessionTimeout))
       => /\ http'.created
          /\ \E nonce \in ServerNonces :
               /\ sessions'[sid].server_nonce = nonce
               /\ [store |-> sessions', http |-> [http' EXCEPT !.stale = FALSE]]
                    = Endpoint(NoSessions, packages, http'.hmac_header, http'.message,
                               nonce)]_vars

\* a request has been answered in a session that replaced an authenticated one whose
\* time had run out
C12_Witness ==
  /\ Answered
  /\ http.stale
  /\ http.created
  /\ Current.msg_id = 1
  /\ Current.emitted = <<"1">>

----------------------------------------------------------------------------
(* C13 *)

\* C13 as claimed: a session idle for longer than the timeout is eventually evicted
\* from the store
C13_ExpiredEvicted ==
  \A sid \in SessionIds :
    (sessions[sid] # NoSession /\ is_expired(sessions[sid], SessionTimeout))
      ~> (sessions[sid] = NoSession \/ ~is_expired(sessions[sid], SessionTimeout))

----------------------------------------------------------------------------
(* C14 *)

\* C14: the session of the exchange a handler has processed and the transport has
\* yet to answer is in the store, whatever sweeps have run
C14_SweepSparesHandled ==
  Parsed => (Current # NoSession /\ Current.msg_id >= 1 /\ Current.idle = 0)

\* an exchange is in flight while the store holds another session, which has expired:
\* a sweep now evicts that one
C14_Witness ==
  /\ Parsed
  /\ \E sid \in SessionIds :
       /\ sid # http.message.session_id
       /\ sessions[sid] # NoSession
       /\ is_expired(sessions[sid], SessionTimeout)
  /\ cleanup_expired(sessions) # sessions
  /\ cleanup_expired(sessions)[http.message.session_id] = Current

----------------------------------------------------------------------------
(* C15 *)

\* the Status elements of a SyncBody, in document order
Statuses(body) == SelectSeq(body, LAMBDA e : e.tag = "Status")

\* the incoming commands the server answers with a Status: all but the Status
\* commands
Acknowledged(commands) == SelectSeq(commands, LAMBDA c : c.name # "Status")

\* C15: in every response the first Status refers to the SyncHdr of the incoming
\* message, the others refer, in the order of the incoming body, to its commands,
\* and the Status elements come before every command of the server
C15_StatusOrder ==
  Answered =>
    LET body == http.response[1].body
        sts == Statuses(body)
        acked == Acknowledged(http.message.commands)
    IN /\ Len(sts) = 1 + Len(acked)
       /\ sts[1].CmdRef = "0" /\ sts[1].Cmd = "SyncHdr"
       /\ \A i \in 1..Len(sts) : sts[i].MsgRef = http.message.msg_id
       /\ \A i \in 1..Len(acked) :
            sts[i + 1].CmdRef = acked[i].cmd_id /\ sts[i + 1].Cmd = acked[i].name
       /\ \A i \in 1..Len(sts) : body[i].tag = "Status"

\* a response with the Status of two incoming commands and a command of the server
C15_Witness ==
  /\ Answered
  /\ Len(Statuses(http.response[1].body)) = 3
  /\ Len(http.response[1].body) >= 5

----------------------------------------------------------------------------
(* C16 *)

\* C16: in every response Final is the last child of SyncBody and occurs once
C16_FinalLast ==
  Answered =>
    LET body == http.response[1].body
    IN /\ body # << >>
       /\ body[Len(body)].tag = "Final"
       /\ \A i \in 1..(Len(body) - 1) : body[i].tag # "Final"

\* a response with statuses, an update offer and Final
C16_Witness ==
  /\ Answered
  /\ HasOffer(http.response[1].body)
  /\ http.response[1].body[Len(http.response[1].body)].tag = "Final"

----------------------------------------------------------------------------
(* C17 *)

\* the paths the Get for the device information asks for
DeviceInfoPaths ==
  <<"./DevInfo/DevId", "./DevInfo/Man", "./DevInfo/Mod", "./DevInfo/FwV",
    "./DevInfo/SwV", "./DevInfo/HwV", "./Software/Build">>

\* the incoming Alert commands that carry a code, and those of code 1201
Alerts(commands) ==
  SelectSeq(commands, LAMBDA c : c.name = "Alert" /\ c.data \in {"1200", "1201"})
ClientInitiated(commands) ==
  SelectSeq(commands, LAMBDA c : c.name = "Alert" /\ c.data = "1201")

\* C17 as claimed: a message with an Alert that carries a code is answered, with
\* a Status 200 for every such Alert and one Get, for the seven device information paths in order, for
\* every Alert of code 1201, and no other Get
C17_AlertGetsDeviceInfo ==
  (Parsed /\ Alerts(http.message.commands) # << >>) =>
    /\ Answered
    /\ LET body == http.response[1].body
           gets == SelectSeq(body, LAMBDA e : e.tag = "Get")
       IN /\ \A i \in 1..Len(Alerts(http.message.commands)) :
               \E k \in 1..Len(body) :
                 /\ body[k].tag = "Status"
                 /\ body[k].Cmd = "Alert"
                 /\ body[k].CmdRef = Alerts(http.message.commands)[i].cmd_id
                 /\ body[k].Data = "200"
          /\ Len(gets) = Len(ClientInitiated(http.message.commands))
          /\ \A i \in 1..Len(gets) :
               gets[i].items = [k \in 1..7 |-> [target |-> DeviceInfoPaths[k]]]

----------------------------------------------------------------------------
(* C18 *)

\* the exchange in flight is a call of check_update_available that returned
Checked == http.phase = "checked"

\* a < b for two tuples of four integers, lexicographically
Before(a, b) ==
  \E k \in 1..4 : a[k] < b[k] /\ \A j \in 1..(k - 1) : a[j] = b[j]

\* P applies to a device of version v
Applies(P, v) ==
  /\ (P.min_version = "" \/ ~Before(v, Version(P.min_version)))
  /\ (P.target_build = "" \/ Before(v, Version(P.target_build)))

\* C18: the packages check_update_available takes as candidates are those of the
\* catalog whose min_version is unset or not above the device version and whose
\* target_build is unset or above it; a package with neither is always one
C18_Applies ==
  Checked =>
    \A i \in 1..Len(packages) :
      /\ (\E k \in 1..Len(http.candidates) : http.candidates[k] = packages[i])
           <=> Applies(packages[i], http.device_version)
      /\ (packages[i].min_version = "" /\ packages[i].target_build = "")
           => \E k \in 1..Len(http.candidates) : http.candidates[k] = packages[i]

\* a device at the target build of one package and at the min_version of another:
\* the first does not apply, the second does
C18_Witness ==
  /\ Checked
  /\ http.device_build = "3.0.5"
  /\ Len(packages) = 2
  /\ packages[1].target_build = "3.0.5"
  /\ packages[2].min_version = "3.0.5" /\ packages[2].target_build = ""
  /\ http.candidates = <<packages[2]>>

----------------------------------------------------------------------------
(* C19 *)

\* the version the candidates are ordered by
Rating(P) == Version(IF P.target_build # "" THEN P.target_build ELSE P.version)

\* C19: check_update_available returns none when no package of the catalog
\* applies, otherwise the first package of the catalog among the applicable ones
\* of the largest version(target_build or version); with the targets 3.0.5 and
\* 3.0.6, no min_version, and a device at 3.0.4 it returns the package of target 3.0.6
C19_NewestApplicable ==
  Checked =>
    LET applicable == {i \in 1..Len(packages) : Applies(packages[i], http.device_version)}
    IN /\ applicable = {} => http.result = << >>
       /\ applicable # {} =>
            \E i \in applicable :
              /\ http.result = <<packages[i]>>
              /\ \A j \in applicable :
                   /\ ~Before(Rating(packages[i]), Rating(packages[j]))
                   /\ Rating(packages[j]) = Rating(packages[i]) => i <= j
       /\ (/\ http.device_build = "3.0.4"
           /\ Len(packages) = 2
           /\ packages[1].target_build = "3.0.5" /\ packages[1].min_version = ""
           /\ packages[2].target_build = "3.0.6" /\ packages[2].min_version = "")
            => http.result = <<packages[2]>>

\* two applicable packages of the same largest version: the first of the catalog
\* is returned
C19_Witness ==
  /\ Checked
  /\ Len(packages) = 2
  /\ Len(http.candidates) = 2
  /\ Rating(packages[1]) = Rating(packages[2])
  /\ http.result = <<packages[1]>>

----------------------------------------------------------------------------
(* C20 *)

\* the first four digit runs of the build strings, read by hand
FirstFourRuns(build) ==
  CASE build = "" -> <<0, 0, 0, 0>>
    [] build = "abc" -> <<0, 0, 0, 0>>
    [] build = "200" -> <<200, 0, 0, 0>>
    [] build = "1.0.0" -> <<1, 0, 0, 0>>
    [] build = "3.0.4" -> <<3, 0, 4, 0>>
    [] build = "3.0.5" -> <<3, 0, 5, 0>>
    [] build = "3.0.6" -> <<3, 0, 6, 0>>
    [] build = "Nova-3.0.5-64" -> <<3, 0, 5, 64>>
    [] build = "1.2.3.4.5" -> <<1, 2, 3, 4>>
    [] build = "1.2.3.4.9" -> <<1, 2, 3, 4>>

\* C20: the version check_update_available parses from a build string, of the
\* device or of a package, is the tuple of its first four digit runs as integers,
\* completed with zeros, and (0,0,0,0) without digits; a fifth run changes nothing
C20_Version ==
  Checked =>
    /\ http.device_version = FirstFourRuns(http.device_build)
    /\ \A i \in 1..Len(packages) :
         /\ Version(packages[i].version) = FirstFourRuns(packages[i].version)
         /\ Version(packages[i].min_version) = FirstFourRuns(packages[i].min_version)
         /\ Version(packages[i].target_build) = FirstFourRuns(packages[i].target_build)
    /\ http.device_build = "Nova-3.0.5-64" => http.device_version = <<3, 0, 5, 64>>
    /\ http.device_build = "3.0.5" => http.device_version = <<3, 0, 5, 0>>
    /\ http.device_build \in {"1.2.3.4.5", "1.2.3.4.9"}
         => http.device_version = <<1, 2, 3, 4>>

\* a build of five digit runs parsed for a device and for the target of a package
C20_Witness ==
  /\ Checked
  /\ http.device_build = "1.2.3.4.9"
  /\ \E i \in 1..Len(packages) : packages[i].target_build = "1.2.3.4.5"
  /\ http.candidates = << >>

----------------------------------------------------------------------------
(* C28 *)

\* C28 as claimed: an error raised while one command is handled does not fail the
\* response: a message that parses is answered with a SyncML response, whose
\* body holds a Status for every incoming command that is not itself a Status,
\* the commands behind the failing one included
C28_PerCommandRecovery ==
  Parsed =>
    /\ http.phase # "failed"
    /\ Answered =>
         \A i \in 1..Len(http.message.commands) :
           http.message.commands[i].name # "Status" =>
             \E k \in 1..Len(http.response[1].body) :
               /\ http.response[1].body[k].tag = "Status"
               /\ http.response[1].body[k].CmdRef = http.message.commands[i].cmd_id

----------------------------------------------------------------------------
(* C23 *)

\* the value the bytes of a multi-byte integer spell, seven bits a byte
RECURSIVE SevenBitValue(_)
SevenBitValue(bytes) ==
  IF bytes = << >> THEN 0
  ELSE SevenBitValue(SubSeq(bytes, 1, Len(bytes) - 1)) * 128 + (bytes[Len(bytes)] % 128)

\* C23: a value below 2^28 written by write_mb_uint32 is read back by
\* read_mb_uint32, which consumes exactly the bytes written whatever follows
\* them; the bytes carry seven bits each, the high bit is set on all but the
\* last, there are at most four of them, and 0 is the single byte 0x00
C23_MbUint32RoundTrip ==
  http.phase = "mb_uint32" =>
    /\ http.read.raised = ""
    /\ http.read.value = http.value
    /\ http.read.pos = Len(http.written)
    /\ Len(http.written) \in 1..4
    /\ \A i \in 1..Len(http.written) :
         /\ http.written[i] \in 0..255
         /\ (http.written[i] >= 128) <=> (i < Len(http.written))
    /\ SevenBitValue(http.written) = http.value
    /\ (Len(http.written) > 1) => http.written[1] # 128
    /\ (http.value = 0) => http.written = <<0>>

\* the largest value of four bytes read back in front of a byte with the high bit
C23_Witness ==
  /\ http.phase = "mb_uint32"
  /\ http.value = 268435455
  /\ http.written = <<255, 255, 255, 127>>
  /\ http.rest = <<255>>
  /\ http.read.raised = ""

----------------------------------------------------------------------------
(* C22 *)

\* C22: for a tree without attributes and tail text, of tags of code page 0, of
\* code page 1 and literal ones, with or without a non-empty text, decoding what
\* the encoder wrote returns the same tree (tags, text and order of children),
\* consumes all the bytes, and leaves the decoder in the encoder's code page
C22_EncodeDecodeRoundTrip ==
  http.phase = "round trip" =>
    /\ http.result.raised = ""
    /\ http.result.elem = <<http.root>>
    /\ http.result.pos = Len(http.data)
    /\ http.result.page = http.encoder_page

\* a tree that makes the encoder switch to code page 1 and back, with a text and
\* a literal tag, came back
C22_Witness ==
  /\ http.phase = "round trip"
  /\ http.root = Element("SyncML", NoText,
                         <<Element("NextNonce", Codes("1"), << >>),
                           Element("Foo", NoText, << >>)>>)
  /\ http.result.raised = ""
  /\ http.encoder_page = 0
  /\ Len(http.data) > 10

----------------------------------------------------------------------------
(* C24 *)

\* the bytes 03 01 6A 00 00 2D 00 01, and the bytes the encoder writes for an
\* empty SyncML element
SpecExample == <<3, 1, 106, 0, 0, 45, 0, 1>>
EncodedEmptySyncML == <<3, 164, 1, 106, 0, 45>>

\* the result of a decoding that returned a single empty SyncML element
IsEmptySyncML(result) ==
  /\ result.raised = ""
  /\ result.elem = <<Element("SyncML", NoText, << >>)>>

\* C24 as claimed: decoding 03 01 6A 00 00 2D 00 01 succeeds and gives a single
\* empty SyncML element
C24_ExampleDecodes ==
  (http.phase = "decoded" /\ http.data = SpecExample) => IsEmptySyncML(http.result)

\* C24, amended: decoding 03 01 6A 00 00 2D 00 01 fails with ValueError at the
\* end of the data (01 is the public id, 6A the charset, 00 the string table
\* length, and 00 2D and 00 01 are two page switches with no tag behind them);
\* the six bytes 03 A4 01 6A 00 2D decode to a single empty SyncML element
C24_ExampleRunsOut ==
  /\ (http.phase = "decoded" /\ http.data = SpecExample)
       => http.result.raised = "ValueError"
  /\ (http.phase = "decoded" /\ http.data = EncodedEmptySyncML)
       => IsEmptySyncML(http.result) /\ http.result.pos = 6

\* the bytes of the example were decoded
C24_Witness ==
  /\ http.phase = "decoded"
  /\ http.data = SpecExample
  /\ http.result.raised # ""

----------------------------------------------------------------------------
(* C25 *)

\* the hand-written documents whose body holds a tag token that its code page
\* does not map and that is not LITERAL: 0x3F in page 0 (alone, inside SyncML,
\* with content), 0x17 in page 1, and 0x2D in page 5, which is no code page
UnknownTokenDocuments ==
  { <<3, 1, 106, 0, 63>>,
    <<3, 1, 106, 0, 0, 1, 23>>,
    <<3, 1, 106, 0, 109, 63, 1>>,
    <<3, 1, 106, 0, 109, 127, 3, 49, 0, 1, 1>>,
    <<3, 1, 106, 0, 0, 5, 45>> }

\* C25 as claimed: decoding a document with a tag token that has no mapping in
\* the current code page and is not a literal fails with UnknownToken and
\* returns no tree
C25_UnknownTokenFails ==
  (http.phase = "decoded" /\ http.data \in UnknownTokenDocuments)
    => http.result.raised = "UnknownToken"

----------------------------------------------------------------------------
(* C26 *)

\* C26: decoding a proper prefix of a well-formed document raises (ValueError
\* from the reads past the end, IndexError from read_string) and returns no
\* tree, wherever the cut falls
C26_TruncatedFails ==
  http.phase = "truncated" =>
    /\ Len(http.data) < Len(http.document)
    /\ http.result.raised \in {"ValueError", "IndexError"}
    /\ "elem" \notin DOMAIN http.result

\* a document cut inside an opaque payload was decoded
C26_Witness ==
  /\ http.phase = "truncated"
  /\ http.document = <<3, 1, 106, 0, 109, 195, 2, 254, 255, 1>>
  /\ http.data = <<3, 1, 106, 0, 109, 195, 2, 254>>
  /\ http.result.raised = "ValueError"

----------------------------------------------------------------------------
(* C30 *)

\* the verification in flight uses the nonce the MAC was produced with
SameNonce ==
  /\ http.phase = "verified"
  /\ NonceOrServerNonce(http.auth, http.nonce) = http.produced_nonce

----------------------------------------------------------------------------
(***************************************************************************)
(* C29: the response of the endpoint is WBXML exactly when the request was *)
(* taken for WBXML, i.e. the family the parser decoded the body as is the   *)
(* family of the answer.                                                    *)
(***************************************************************************)
\* C29: whenever a body was parsed and answered with 200, the media type of the
\* response is the WBXML one if and only if the parser took the body for WBXML
C29_ResponseFamilyFollowsRequest ==
  (http.phase = "posted" /\ http.status_code = 200)
    => (http.media_type = <<WbxmlType>> <=> http.is_wbxml)

----------------------------------------------------------------------------
(***************************************************************************)
(* C27: a NextNonce sent as OPAQUE reaches the meta map as the Base64 text  *)
(* of its bytes, and the endpoint's Base64 decoding gives the session the   *)
(* bytes the client sent.                                                   *)
(***************************************************************************)
\* C27: whenever a WBXML body whose NextNonce is an OPAQUE of the bytes nonce, at
\* least one byte, was parsed, header.meta['NextNonce'] is the Base64 text of
\* nonce and the client nonce the endpoint keeps is nonce itself
C27_OpaqueNonceNormalized ==
  \A nonce \in OpaqueNonces \ {<< >>} :
    (/\ http.phase = "posted"
     /\ http.data = OpaqueNonceDocument(nonce)
     /\ http.parsed.raised = "")
      => /\ GetItem(http.parsed.message.header.meta, "NextNonce") = <<b64encode(nonce)>>
         /\ http.client_nonce = <<nonce>>

----------------------------------------------------------------------------
(***************************************************************************)
(* C21: the two serializations of a message of the builder parse to equal   *)
(* messages.                                                                *)
(***************************************************************************)
\* C21: whenever a response of the builder was serialized, parsing its WBXML and
\* parsing its XML both return, and return the same message: header, commands
\* with their items and data, and is_final
C21_WbxmlAndXmlParseAlike ==
  http.phase = "serialized"
    => /\ http.from_wbxml.raised = ""
       /\ http.from_xml.raised = ""
       /\ http.from_wbxml.message = http.from_xml.message

----------------------------------------------------------------------------
(* C31 *)

\* a step in which the endpoint takes a request whose body parsed
Taken == http.phase = "idle" /\ http'.phase # "idle" /\ "message" \in DOMAIN http'

\* the state and device information of the Session object a request meets: those of
\* the stored session, or of a new one
Met(sid) ==
  IF sessions[sid] # NoSession /\ sessions[sid].idle <= SessionTimeout
  THEN [state |-> sessions[sid].state, device_info |-> sessions[sid].device_info]
  ELSE [state |-> INIT,
        device_info |-> [f \in DOMAIN NewDeviceInfo |-> ""]]

\* the items of the commands of a body, in document order
RECURSIVE ItemsOf(_)
ItemsOf(commands) ==
  IF commands = << >> THEN << >> ELSE commands[1].items \o ItemsOf(Tail(commands))

\* the DeviceInfo field the source paths of the incoming Results stand for
FieldNamed(source) ==
  CASE source = "./Software/Build" -> "current_build"
    [] source = "./DevInfo/SwV" -> "software_version"
    [] OTHER -> "none"

\* the value of a field once items are applied in order to a record where it was old:
\* the data of the last item that names the field
Applied(items, field, old) ==
  LET hits == {i \in 1..Len(items) : FieldNamed(items[i].source) = field}
  IN IF hits = {} THEN old
     ELSE items[CHOOSE i \in hits : \A j \in hits : j <= i].data

----------------------------------------------------------------------------
(* C32 *)

\* the commands of a body that are Status commands
StatusCommands(commands) == SelectSeq(commands, LAMBDA c : c.name = "Status")

\* the key and the record claimed for an incoming Status command
ClaimedKey(c) ==
  c.cmd_ref \o "_" \o (IF c.target_ref = None THEN "" ELSE c.target_ref)

ClaimedResult(c) ==
  [key |-> ClaimedKey(c), cmd |-> c.cmd,
   status |-> CASE c.data = "200" -> 200
                [] c.data \in {None, ""} -> 0
                [] OTHER -> -1,
   target |-> IF c.target_ref = None THEN "" ELSE c.target_ref]

\* C32 as claimed: a message with Status commands is answered; each of them is
\* recorded in command_results under cmd_ref_target_ref (the last of a key
\* standing), the response has one Status for SyncHdr and one for each command
\* that is not a Status, and a message of Status commands only leaves state and
\* device_info as they were and records nothing else
C32_StatusRecorded ==
  [][(Taken /\ StatusCommands(http'.message.commands) # << >>)
     => LET message == http'.message
            stats == StatusCommands(message.commands)
            met == Met(message.session_id)
            after == http'.processed
            old == IF sessions[message.session_id] # NoSession
                      /\ sessions[message.session_id].idle <= SessionTimeout
                   THEN sessions[message.session_id].command_results ELSE {}
        IN /\ http'.phase = "done"
           /\ \A i \in 1..Len(stats) :
                (\A j \in (i + 1)..Len(stats) : ClaimedKey(stats[j]) # ClaimedKey(stats[i]))
                  => ClaimedResult(stats[i]) \in after.command_results
           /\ \A e \in after.command_results :
                \/ e \in old
                \/ \E i \in 1..Len(stats) : e = ClaimedResult(stats[i])
           /\ Len(Statuses(http'.response[1].body))
                = 1 + Len(Acknowledged(message.commands))
           /\ Len(stats) = Len(message.commands)
                => after.state = met.state /\ after.device_info = met.device_info]_vars

----------------------------------------------------------------------------
(* C33 *)

\* the names process_dm_message has a branch for
HandledNames == {"Alert", "Status", "Results", "Replace", "Get"}

\* the position, among the Status elements of the response, of the Status for the
\* i-th incoming command, were every command but a Status answered in order
StatusPosition(commands, i) ==
  1 + Cardinality({j \in 1..i : commands[j].name # "Status"})

----------------------------------------------------------------------------
(* C34 *)

\* what a Get item asks for can be given from a session whose device information
\* is info, with the catalog of the server: the build always (the session's, or the
\* default), the package URL when an update is found for the session's build
Satisfied(item, info) ==
  \/ item.target = "./Software/Build"
  \/ /\ item.target = "./Software/Package/PkgURL"
     /\ check_update_available(packages, info.current_build) # << >>

\* the Results item that answers a satisfied Get item
Answer(item, info) ==
  [source |-> item.target,
   data |-> IF item.target = "./Software/Build"
            THEN (IF info.current_build # "" THEN info.current_build ELSE "Nova-3.0.5-64")
            ELSE SERVER_URL \o "/packages/"
                 \o check_update_available(packages, info.current_build)[1].filename]

\* the Results items that answer the items of a Get, in their order
RECURSIVE Answers(_, _)
Answers(items, info) ==
  IF items = << >> THEN << >>
  ELSE (IF Satisfied(items[1], info) THEN <<Answer(items[1], info)>> ELSE << >>)
       \o Answers(Tail(items), info)

\* the incoming Get commands some item of which is satisfied
Served(commands, info) ==
  SelectSeq(commands,
            LAMBDA c : c.name = "Get"
                       /\ \E k \in 1..Len(c.items) : Satisfied(c.items[k], info))

C34_WitnessUnserved ==
  /\ Answered
  /\ Len(http.message.commands) = 1
  /\ http.message.commands[1].name = "Get"
  /\ Len(http.message.commands[1].items) = 2
  /\ SelectSeq(http.response[1].body, LAMBDA e : e.tag = "Results") = << >>

----------------------------------------------------------------------------
(* C35 *)

\* the exchange in flight is a call of update_device_info that returned
Updated == http.phase = "updated"

\* the characters of a path behind its last "/"
FinalSegment(cs) ==
  LET slashes == {i \in 1..Len(cs) : cs[i] = "/"}
  IN IF slashes = {} THEN cs
     ELSE SubSeq(cs, (CHOOSE i \in slashes : \A j \in slashes : j <= i) + 1, Len(cs))

\* the keywords of the claim and the fields they stand for
Keywords ==
  {<<<<"d","e","v","i","d">>, "device_id">>, <<<<"m","o","d">>, "model">>,
   <<<<"m","a","n">>, "manufacturer">>, <<<<"f","w","v">>, "firmware_version">>,
   <<<<"f","m","v">>, "firmware_version">>, <<<<"s","w","v">>, "software_version">>,
   <<<<"h","w","v">>, "hardware_version">>, <<<<"b","u","i","l","d">>, "current_build">>,
   <<<<"d","m","v">>, "dm_version">>, <<<<"l","a","n","g">>, "language">>}

\* the fields the keywords found in the final segment of a path stand for
SegmentFields(path) ==
  {k[2] : k \in {k \in Keywords : Contains(Lower(FinalSegment(Chars(path))), k[1])}}

\* C35 as claimed: update_device_info(path, value) sets the one field a keyword in
\* the final segment of path stands for to value and leaves the others, whatever
\* the earlier segments; it changes nothing when no keyword is in the final segment
C35_FinalSegmentSelects ==
  Updated =>
    LET after == sessions[http.session_id].device_info
    IN IF SegmentFields(http.path) = {} THEN after = http.before
       ELSE \E f \in SegmentFields(http.path) :
              after = [http.before EXCEPT ![f] = http.value]

----------------------------------------------------------------------------
(* C36 *)

\* the exchange in flight is a rescan that returned
Scanned == http.phase = "scanned"

\* the entries of a catalog
Entries(pkgs) == {pkgs[i] : i \in 1..Len(pkgs)}

\* the package files of a directory that can be read and whose filename no entry
\* of the catalog pkgs bears
Uncatalogued(directory, pkgs) ==
  IF directory = NoDirectory THEN {}
  ELSE {f \in {directory[i] : i \in 1..Len(directory)} :
          /\ f.suffix \in {".ipk", ".dipk"}
          /\ f.readable
          /\ \A e \in Entries(pkgs) : e.filename # f.filename}

\* C36 as claimed: after a rescan every entry the catalog had is in it unchanged, at the
\* place it had, each readable *.ipk or *.dipk file whose filename was not
\* catalogued has an entry, every other entry is one the catalog had, and no two
\* entries bear the same name
C36_RescanOnlyAppends ==
  Scanned =>
    /\ Len(packages) >= Len(http.before)
    /\ \A i \in 1..Len(http.before) : packages[i] = http.before[i]
    /\ \A f \in Uncatalogued(http.directory, http.before) :
         \E e \in Entries(packages) : e.filename = f.filename
    /\ \A i \in (Len(http.before) + 1)..Len(packages) :
         \E f \in Uncatalogued(http.directory, http.before) :
           packages[i].filename = f.filename
    /\ \A i, j \in 1..Len(packages) : packages[i].name = packages[j].name => i = j

----------------------------------------------------------------------------
(* C37 *)

\* C37 as claimed: a request that is answered with HTTP 500 leaves the session store as
\* it was: no session is created and no field of a session changes
C37_ErrorLeavesStore ==
  [][(http.phase = "idle" /\ http'.phase = "failed") => sessions' = sessions]_vars

----------------------------------------------------------------------------
(* C38 *)

\* C38 as claimed: a message that meets its session in UpdateAvailable is answered
\* without a Replace and without an Exec, so that the update is offered in at most
\* one response of a session
C38_OfferedOnce ==
  [][(/\ Taken
      /\ http'.phase = "done"
      /\ get_session(sessions, http'.message.session_id)
      /\ sessions[http'.message.session_id].state = UPDATE_AVAILABLE)
     => NoOffer(http'.response[1].body)]_vars

----------------------------------------------------------------------------
(* C39 *)

\* C39: the state of every session of the store is one of Init, Authenticated,
\* Management and UpdateAvailable, never Downloading, Complete or Error
C39_FourStates ==
  \A sid \in SessionIds :
    sessions[sid] # NoSession =>
      sessions[sid].state \in {INIT, AUTHENTICATED, MANAGEMENT, UPDATE_AVAILABLE}

\* a session that was offered the update has answered with the Status of the Exec
\* of DownloadAndInstall, and is still in UpdateAvailable
C39_Witness ==
  /\ Answered
  /\ Current.state = UPDATE_AVAILABLE
  /\ \E i \in 1..Len(http.message.commands) :
       /\ http.message.commands[i].name = "Status"
       /\ http.message.commands[i].target_ref = "./Software/Operations/DownloadAndInstall"
  /\ \E e \in Current.command_results :
       e.target = "./Software/Operations/DownloadAndInstall"

====
